---- MODULE Spec2Model ----
(***************************************************************************)
(* Resource reconcilers of the Cloudflare Terraform provider.              *)
(*                                                                         *)
(* One resource instance of one resource type (kind) is reconciled against *)
(* the remote entity it addresses.  The host (provider framework) invokes  *)
(* Create / Read / Update / Delete / Import; every handler is one atomic   *)
(* action, except the bounded polling loops of resource.Retry, which take  *)
(* one step per attempt so that the remote status may change between       *)
(* attempts.  Remote failures are inputs: x.f is the index of the remote   *)
(* call of the operation that fails with an unclassified error (0: none).  *)
(***************************************************************************)
EXTENDS Integers, Sequences, FiniteSets, TLC

VARIABLES
    kind,      \* resource type of the instance (fixed)
    id,        \* d.Id(): the identity, a string (sequence of characters)
    attrs,     \* the attribute bag d, a record
    remote,    \* the remote entity this instance addresses
    created,   \* number of remote entities created by creation calls
    op,        \* the operation that returned last (or is polling)
    pc,        \* "idle", or "poll" inside a resource.Retry loop
    poll,      \* state of the running resource.Retry loop
    declared,  \* the configuration the host declared at the last Create/Update
    quiet      \* a Create succeeded and nothing but Read has touched the entity since

vars == <<kind, id, attrs, remote, created, op, pc, poll, declared, quiet>>

---------------------------------------------------------------------------
(* Bounds of the model *)

\* most segments of an external identifier handed to Import
MaxSegments == 4
\* creation calls the remote API accepts in one run
MaxCreated == 1

\* the timeout of resource.Retry, and the longest an attempt takes, in units
\* of time
PollTimeout == 3
MaxAttemptTime == 2

---------------------------------------------------------------------------
(* Strings: sequences of characters.  A character is a token; "/" is the   *)
(* separator of external identifiers.                                      *)

EmptyStr == <<>>

\* the strings made of n segments joined by "/", the i-th segment taken
\* from segs[i] (from the last set of segs beyond its length)
RECURSIVE Joined(_, _)
Joined(segs, n) ==
    LET last == segs[IF n <= Len(segs) THEN n ELSE Len(segs)]
    IN  IF n = 1 THEN segs[1]
        ELSE {s \o <<"/">> \o e : s \in Joined(segs, n - 1), e \in last}

\* index of the first "/" of s at or after i, 0 when there is none
RECURSIVE IndexOfSlash(_, _)
IndexOfSlash(s, i) ==
    IF i > Len(s) THEN 0
    ELSE IF s[i] = "/" THEN i
    ELSE IndexOfSlash(s, i + 1)

\* strings.SplitN(s, "/", n) for n > 0: at most n substrings, the last one
\* the unsplit remainder
RECURSIVE SplitN(_, _)
SplitN(s, n) ==
    LET i == IndexOfSlash(s, 1)
    IN  IF n = 1 \/ i = 0 THEN <<s>>
        ELSE <<SubSeq(s, 1, i - 1)>> \o SplitN(SubSeq(s, i + 1, Len(s)), n - 1)

\* stringChecksum: a deterministic digest of its argument
stringChecksum(s) == <<"#">> \o s

\* the identifier the server issues at the n-th creation call
ServerId(n) == [i \in 1..n |-> "r"]

---------------------------------------------------------------------------
(* Errors of the remote API client *)

E404 == "HTTP status 404"
E500 == "HTTP status 500"
EMemberNotFound == "Member not found"
EScriptNotFound == "workers.api.error.script_not_found"
EWafNotFound == "wafuriconfig.api.not_found"
ERulesetNotFound == "could not find ruleset"
E12109 == "error code 12109"
E1414 == "error code 1414"

\* errors of this operation that are not remote errors
ErrInvalidId == "invalid id"
ErrEmptyResponse == "resource was empty"
ErrTimeout == "timeout"

\* strings.Contains(err.Error(), pattern), on error tokens
ErrContains(err, pattern) == err = pattern

---------------------------------------------------------------------------
(* The handler state threaded through a handler: the resource data d, the  *)
(* remote entity, the log of remote calls, and the returned error.         *)

Zone == <<"z1">>

NoRemote == [exists |-> FALSE]

Log(s, api, res) == [s EXCEPT !.calls = Append(@, [api |-> api, res |-> res])]

\* the next remote call is the one chosen to fail
Fails(s, x) == Len(s.calls) + 1 = x.f

Return(s, err) == [s EXCEPT !.ret = err]

\* the handler reached a step worth telling from its remote calls: what it
\* was, and after how many remote calls
Invoked(s, what) ==
    [s EXCEPT !.marks = Append(@, [what |-> what, at |-> Len(s.calls), keys |-> {},
                                   changed |-> {}])]

\* the next remote call is a request built from the attributes keys, of
\* which changed differ from the prior state
Sending(s, keys) ==
    [s EXCEPT !.marks = Append(@, [what |-> "Send", at |-> Len(s.calls), keys |-> keys,
                                   changed |-> {k \in keys : s.attrs[k] # s.old[k]}])]

\* d.SetId(v)
SetId(s, v) ==
    [Invoked(s, IF v = EmptyStr THEN "ClearId" ELSE "SetId") EXCEPT !.id = v]

\* d.Set(key, value)
Set(s, k, v) == [s EXCEPT !.attrs = [@ EXCEPT ![k] = v]]

\* d.GetOk(key): the value and whether it differs from the zero value
GetOk(s, k, zero) == [v |-> s.attrs[k], ok |-> s.attrs[k] # zero]

\* the attributes among keys that d.GetOk reports as set
Present(s, zeros) == {k \in DOMAIN zeros : GetOk(s, k, zeros[k]).ok}

\* d.HasChange(key): the planned value differs from the prior state
HasChange(s, k) == s.attrs[k] # s.old[k]

\* the remote entity addressed by addr exists
Found(s, addr) == s.remote.exists /\ s.remote.rid = addr

\* the remote entity that exists is another one than the one addr names
Elsewhere(s, addr) == s.remote.exists /\ s.remote.rid # addr

\* result of a remote call on the entity addressed by addr: an unclassified
\* failure, the not-found error of this API, or success
CallAt(s, x, addr) ==
    IF Fails(s, x) THEN E500
    ELSE IF ~Found(s, addr) THEN x.nf
    ELSE "ok"

\* result of a fetch of the entity d.Id()
FetchById(s, x) == CallAt(s, x, s.id)

\* result of an update or delete of the entity d.Id()
CallById(s, x) == CallAt(s, x, s.id)

\* result of a creation call
CreateCall(s, x) == IF Fails(s, x) THEN E500 ELSE "ok"

\* the remote entity set after a successful creation call with payload data
Created(s, data) ==
    [s EXCEPT !.remote = [exists |-> TRUE, rid |-> ServerId(s.created + 1), data |-> data],
              !.created = @ + 1]

\* the entity Import finds at the imported identifier, when there is one
Imported(s, x, rid) ==
    [s EXCEPT !.remote = IF x.found THEN [exists |-> TRUE, rid |-> rid, data |-> x.data]
                         ELSE NoRemote]

---------------------------------------------------------------------------
(* The resource types: their attributes, the configurations declared for   *)
(* them, and the external identifiers handed to their Import.              *)

Account == <<"acc1">>
PageType == <<"basic_challenge">>
Prefix == <<"p1">>
Script == <<"worker">>
PerZone == <<"per-zone">>
PerHostname == <<"per-hostname">>
AllowRule ==
    [expression |-> "tcp.dstport in { 32768..65535 }", description |-> "allow",
     enabled |-> "true", action |-> "allow"]
BlockRule == [expression |-> "ip.len eq 1", enabled |-> "false", action |-> "block"]

\* the attributes of a resource type, at their zero values
ZeroAttrs(k) ==
    CASE k = "filter" ->
            [zone_id |-> EmptyStr, paused |-> FALSE, description |-> "",
            expression |-> "", ref |-> ""]
      [] k = "load_balancer_pool" ->
            [name |-> "", enabled |-> FALSE, description |-> "", latitude |-> 0,
            check_regions |-> {}, modified_on |-> ""]
      [] k = "magic_firewall_ruleset" ->
            [account_id |-> EmptyStr, name |-> "", description |-> "", rules |-> <<>>]
      [] k = "teams_list" ->
            [account_id |-> EmptyStr, name |-> "", type |-> "", description |-> "", items |-> {}]
      [] k = "certificate_pack" ->
            [zone_id |-> EmptyStr, type |-> "", hosts |-> {}, validation_method |-> "",
            validation_errors |-> <<>>]
      [] k = "byo_ip_prefix" ->
            [account_id |-> EmptyStr, prefix_id |-> EmptyStr, description |-> "", advertisement |-> ""]
      [] k = "waf_override" ->
            [zone_id |-> EmptyStr, urls |-> <<>>, paused |-> FALSE, description |-> "",
            rules |-> <<>>, override_id |-> EmptyStr]
      [] k = "access_keys_configuration" ->
            [account_id |-> EmptyStr, key_rotation_interval_days |-> 0]
      [] k = "account_member" ->
            [email_address |-> "", role_ids |-> <<>>]
      [] k = "worker_cron_trigger" ->
            [account_id |-> EmptyStr, script_name |-> EmptyStr, schedules |-> {}]
      [] k = "custom_pages" ->
            [zone_id |-> EmptyStr, account_id |-> EmptyStr, type |-> EmptyStr, url |-> "", state |-> ""]
      [] k = "custom_hostname_fallback_origin" ->
            [zone_id |-> EmptyStr, origin |-> EmptyStr, status |-> ""]
      [] k = "authenticated_origin_pulls_certificate" ->
            [zone_id |-> EmptyStr, type |-> EmptyStr, certificate |-> "", status |-> "",
            expires_on |-> "", serial_number |-> ""]

\* the declared configurations of a resource type
Configs(k) ==
    CASE k = "filter" ->
            [zone_id : {Zone}, paused : BOOLEAN, description : {"", "blocked"},
            expression : {"ip.src eq 1.1.1.1"}, ref : {""}]
      [] k = "load_balancer_pool" ->
            [name : {"pool"}, enabled : {TRUE}, description : {"primary"},
            latitude : {0, 45123400, 45123460}, check_regions : {{"WEU"}}]
      [] k = "magic_firewall_ruleset" ->
            [account_id : {Zone}, name : {"ruleset"}, description : {"", "edge"},
            rules : {<<>>, <<AllowRule>>, <<BlockRule, AllowRule>>}]
      [] k = "teams_list" ->
            [account_id : {Zone}, name : {"list"}, type : {"SERIAL"}, description : {"laptops"},
            items : {{"a", "b", "c"}, {"b", "c", "d"}, {}}]
      [] k = "certificate_pack" ->
            [zone_id : {Zone}, type : {"advanced", "dedicated_custom"}, hosts : {{"example.com"}},
            validation_method : {"txt"}]
      [] k = "byo_ip_prefix" ->
            [account_id : {Zone}, prefix_id : {Prefix}, description : {"", "office"},
            advertisement : {"", "on", "off"}]
      [] k = "waf_override" ->
            [zone_id : {Zone}, urls : {<<"example.com/*">>}, paused : BOOLEAN,
            description : {"", "override"}, rules : {<<>>, [r100015 |-> "disable"]}]
      [] k = "access_keys_configuration" ->
            [account_id : {Zone}, key_rotation_interval_days : {0, 30}]
      [] k = "account_member" ->
            [email_address : {"user@example.com"}, role_ids : {<<"admin">>, <<"admin", "billing">>}]
      [] k = "worker_cron_trigger" ->
            [account_id : {Zone}, script_name : {Script},
            schedules : {{"* * * * *"}, {"* * * * *", "0 0 * * *"}}]
      [] k = "custom_pages" ->
            {[zone_id |-> p[1], account_id |-> p[2], type |-> PageType, url |-> u] :
            p \in {<<Zone, EmptyStr>>, <<EmptyStr, Account>>},
            u \in {"https://example.com/a", "https://example.com/b"}}
      [] k = "custom_hostname_fallback_origin" ->
            [zone_id : {Zone}, origin : {<<"fallback.example.com">>, <<"other.example.com">>}]
      [] k = "authenticated_origin_pulls_certificate" ->
            [zone_id : {Zone}, type : {PerZone, PerHostname}, certificate : {"-----BEGIN"}]

\* what an Import can find at the imported identifier
DataOf(k) ==
    CASE k = "filter" ->
            [paused : {TRUE}, description : {"", "found"},
            expression : {"ip.src eq 1.1.1.1"}, ref : {"ref1"}]
      [] k = "load_balancer_pool" ->
            [name : {"found"}, enabled : {TRUE}, description : {""},
            latitude : {[nil |-> TRUE], [nil |-> FALSE, v |-> 45123401]},
            check_regions : {{}}, modified : {"t0"}]
      [] k = "magic_firewall_ruleset" ->
            [name : {"found"}, description : {""},
            rules : {<<>>, <<[Expression |-> "ip.len eq 1", Description |-> "", Enabled |-> TRUE,
            Action |-> "skip", ActionParameters |-> "current"]>>}]
      [] k = "teams_list" ->
            [name : {"found"}, type : {"SERIAL"}, description : {""}, items : {{}, {"a", "e"}}]
      [] k = "certificate_pack" ->
            [type : {"advanced"}, hosts : {<<"found.example.com">>},
            validation_errors : {[nil |-> TRUE], [nil |-> FALSE, v |-> <<"no CAA">>]}]
      [] k = "byo_ip_prefix" ->
            [description : {"found"}, advertised : BOOLEAN]
      [] k = "waf_override" ->
            [urls : {<<"found.example.com/*">>}, paused : {TRUE}, description : {""},
            rules : {<<>>, [r100016 |-> "block"]}]
      [] k = "access_keys_configuration" ->
            [key_rotation_interval_days : {90}]
      [] k = "account_member" ->
            [email : {"found@example.com"}, roles : {<<"admin">>}]
      [] k = "authenticated_origin_pulls_certificate" ->
            [family : {PerZone}, status : {"active"}, expires : {"000000001Z"}, serial : {"1001"}]
      [] OTHER -> {[none |-> TRUE]}

\* the segments external identifiers are made of, by position
Segments(k) ==
    CASE k = "filter" ->
            <<{Zone}, {<<"f1">>}, {<<"x">>}>>
      [] k = "load_balancer_pool" ->
            <<{<<"p1">>}, {<<"x">>}>>
      [] k = "magic_firewall_ruleset" ->
            <<{Zone}, {<<"m1">>}, {<<"x">>}>>
      [] k = "teams_list" ->
            <<{Zone}, {<<"t1">>}, {<<"x">>}>>
      [] k = "certificate_pack" ->
            <<{Zone}, {<<"c1">>}, {<<"x">>}>>
      [] k = "byo_ip_prefix" ->
            <<{Prefix}, {<<"x">>}>>
      [] k = "waf_override" ->
            <<{Zone}, {<<"w1">>}, {<<"x">>}>>
      [] k = "access_keys_configuration" ->
            <<{Zone}, {<<"x">>}>>
      [] k = "worker_cron_trigger" ->
            <<{Script}, {<<"x">>}>>
      [] k = "custom_pages" ->
            <<{<<"account">>, <<"zone">>}, {Account}, {PageType}, {<<"x">>}>>
      [] k = "custom_hostname_fallback_origin" ->
            <<{Zone}, {<<"fallback.example.com">>}, {<<"x">>}>>
      [] k = "authenticated_origin_pulls_certificate" ->
            <<{Zone}, {PerZone, <<"per-host">>}, {<<"c1">>}, {<<"x">>}>>

\* the remote entity before the first operation: resource types that adopt
\* or configure an entity provisioned out of band start with it
InitialRemotes(k) ==
    CASE k = "byo_ip_prefix" ->
            {[exists |-> TRUE, rid |-> Prefix,
             data |-> [description |-> "", advertised |-> FALSE]]}
      [] k = "access_keys_configuration" ->
            {NoRemote,
             [exists |-> TRUE, rid |-> Zone, data |-> [key_rotation_interval_days |-> 90]]}
      [] k = "worker_cron_trigger" ->
            {[exists |-> TRUE, rid |-> Script, data |-> [schedules |-> <<>>]]}
      [] k = "custom_pages" ->
            {[exists |-> TRUE, rid |-> PageType, data |-> [state |-> "default", url |-> ""]],
             [exists |-> TRUE, rid |-> PageType,
             data |-> [state |-> "customized", url |-> "https://example.com/found"]]}
      [] OTHER -> {NoRemote}

---------------------------------------------------------------------------
(* cloudflare_filter *)

\* the cloudflare.Filter struct built from the optional-if-present attributes
FilterFromResource(s) ==
    [paused      |-> IF GetOk(s, "paused", FALSE).ok THEN s.attrs.paused ELSE FALSE,
     description |-> IF GetOk(s, "description", "").ok THEN s.attrs.description ELSE "",
     expression  |-> IF GetOk(s, "expression", "").ok THEN s.attrs.expression ELSE "",
     ref         |-> IF GetOk(s, "ref", "").ok THEN s.attrs.ref ELSE ""]

\* a faulty Read: it takes every fetch error for the entity being gone
FilterReadClearingOnAnyError(d, x) ==
    LET s == Invoked(d, "Read")
        err == FetchById(s, x)
        s1  == Log(s, "Filter", err)
        filter == s.remote.data
    IN  IF err # "ok" THEN SetId(s1, EmptyStr)
        ELSE Set(Set(Set(Set(s1, "paused", filter.paused),
                         "description", filter.description),
                     "expression", filter.expression),
                 "ref", filter.ref)

resourceCloudflareFilterRead(d, x) ==
    LET s == Invoked(d, "Read")
        err == FetchById(s, x)
        s1  == Log(s, "Filter", err)
        filter == s.remote.data
    IN  IF err # "ok"
        THEN IF ErrContains(err, E404) THEN SetId(s1, EmptyStr)
             ELSE Return(s1, err)
        ELSE Set(Set(Set(Set(s1, "paused", filter.paused),
                         "description", filter.description),
                     "expression", filter.expression),
                 "ref", filter.ref)

\* a faulty Create: when the Read after the creation fails it creates again
FilterCreateAgainOnReadError(s, x) ==
    LET newFilter == FilterFromResource(s)
        err == CreateCall(s, x)
        s1  == Log(s, "CreateFilters", err)
    IN  IF err # "ok" THEN Return(s1, err)
        ELSE IF x.empty THEN Return(s1, ErrEmptyResponse)
        ELSE LET s2 == Created(s1, newFilter)
                 r  == resourceCloudflareFilterRead(SetId(s2, s2.remote.rid), x)
                 r2 == Created(Log(r, "CreateFilters", "ok"), newFilter)
             IN  IF r.ret = "ok" THEN r
                 ELSE Return(SetId(r2, r2.remote.rid), "ok")

resourceCloudflareFilterCreate(s, x) ==
    LET newFilter == FilterFromResource(s)
        err == CreateCall(s, x)
        s1  == Log(s, "CreateFilters", err)
    IN  IF err # "ok" THEN Return(s1, err)
        ELSE IF x.empty THEN Return(s1, ErrEmptyResponse)
        ELSE LET s2 == Created(s1, newFilter)
             IN  resourceCloudflareFilterRead(SetId(s2, s2.remote.rid), x)

\* a faulty Update: it leaves the description out of the filter it sends
FilterUpdateWithoutDescription(s, x) ==
    LET newFilter == [FilterFromResource(s) EXCEPT !.description = s.remote.data.description]
        err == CallById(s, x)
        s1  == Log(Sending(s, Present(s, [paused |-> FALSE, expression |-> "", ref |-> ""])),
                   "UpdateFilter", err)
    IN  IF err # "ok" THEN Return(s1, err)
        ELSE LET s2 == [s1 EXCEPT !.remote.data = newFilter]
             IN  IF x.empty THEN Return(s2, ErrEmptyResponse)
                 ELSE resourceCloudflareFilterRead(s2, x)

resourceCloudflareFilterUpdate(s, x) ==
    LET newFilter == FilterFromResource(s)
        err == CallById(s, x)
        s1  == Log(Sending(s, Present(s, [paused |-> FALSE, description |-> "", expression |-> "",
                                           ref |-> ""])),
                   "UpdateFilter", err)
    IN  IF err # "ok" THEN Return(s1, err)
        ELSE LET s2 == [s1 EXCEPT !.remote.data = newFilter]
             IN  IF x.empty THEN Return(s2, ErrEmptyResponse)
                 ELSE resourceCloudflareFilterRead(s2, x)

resourceCloudflareFilterDelete(s, x) ==
    LET err == CallById(s, x)
        s1  == Log(s, "DeleteFilter", err)
    IN  IF err # "ok" THEN Return(s1, err)
        ELSE [s1 EXCEPT !.remote = NoRemote]

resourceCloudflareFilterImport(s, x) ==
    LET idAttr == SplitN(s.id, 2)
    IN  IF Len(idAttr) # 2 THEN Return(s, ErrInvalidId)
        ELSE LET s1 == SetId(Set(s, "zone_id", idAttr[1]), idAttr[2])
                 r  == resourceCloudflareFilterRead(Imported(s1, x, idAttr[2]), x)
             IN  Return(r, "ok")

---------------------------------------------------------------------------
(* cloudflare_load_balancer_pool.  Latitudes are in millionths of a        *)
(* degree.  minimum_origins, monitor, notification_email, longitude,       *)
(* origins, load_shedding and origin_steering are handled like the         *)
(* attributes below: those that follow another one's code are left out.    *)

\* the float32 representation errors, in millionths of a degree
Float32Errors == {-1, 0, 1}

\* float32(v): the nearest representable value, eps millionths away
Float32(v, eps) == v + eps

\* math.Round(v*10000) / 10000, for v >= 0
Round4(v) == ((v + 50) \div 100) * 100

\* time.Time.Format(time.RFC3339Nano)
FormatRFC3339Nano(t) == "2006-01-02T15:04:05." \o t

\* the cloudflare.LoadBalancerPool struct of Create and Update
LoadBalancerPoolFromResource(s, x) ==
    [name          |-> s.attrs.name,
     enabled       |-> s.attrs.enabled,
     latitude      |-> IF GetOk(s, "latitude", 0).ok
                       THEN [nil |-> FALSE, v |-> Float32(s.attrs.latitude, x.eps)]
                       ELSE [nil |-> TRUE],
     check_regions |-> IF GetOk(s, "check_regions", {}).ok THEN s.attrs.check_regions ELSE {},
     description   |-> IF GetOk(s, "description", "").ok THEN s.attrs.description ELSE ""]

\* a faulty Read: it sets the latitude as the API holds it, unrounded
LoadBalancerPoolReadUnrounded(d, x) ==
    LET s == Invoked(d, "Read")
        err == FetchById(s, x)
        s1  == Log(s, "LoadBalancerPoolDetails", err)
        pool == s.remote.data
        s2  == Set(Set(Set(Set(s1, "name", pool.name),
                           "enabled", pool.enabled),
                       "description", pool.description),
                   "modified_on", FormatRFC3339Nano(pool.modified))
        s3  == IF ~pool.latitude.nil THEN Set(s2, "latitude", pool.latitude.v) ELSE s2
    IN  IF err # "ok"
        THEN IF ErrContains(err, E404) THEN SetId(s1, EmptyStr)
             ELSE Return(s1, err)
        ELSE Set(s3, "check_regions", pool.check_regions)

resourceCloudflareLoadBalancerPoolRead(d, x) ==
    LET s == Invoked(d, "Read")
        err == FetchById(s, x)
        s1  == Log(s, "LoadBalancerPoolDetails", err)
        pool == s.remote.data
        s2  == Set(Set(Set(Set(s1, "name", pool.name),
                           "enabled", pool.enabled),
                       "description", pool.description),
                   "modified_on", FormatRFC3339Nano(pool.modified))
        s3  == IF ~pool.latitude.nil THEN Set(s2, "latitude", Round4(pool.latitude.v)) ELSE s2
    IN  IF err # "ok"
        THEN IF ErrContains(err, E404) THEN SetId(s1, EmptyStr)
             ELSE Return(s1, err)
        ELSE Set(s3, "check_regions", pool.check_regions)

resourceCloudflareLoadBalancerPoolCreate(s, x) ==
    LET loadBalancerPool == LoadBalancerPoolFromResource(s, x)
        err == CreateCall(s, x)
        s1  == Log(s, "CreateLoadBalancerPool", err)
        s2  == Created(s1, loadBalancerPool @@ [modified |-> "t1"])
    IN  IF err # "ok" THEN Return(s1, err)
        ELSE IF x.empty THEN Return(s2, ErrEmptyResponse)
        ELSE resourceCloudflareLoadBalancerPoolRead(SetId(s2, s2.remote.rid), x)

resourceCloudflareLoadBalancerPoolUpdate(s, x) ==
    LET loadBalancerPool == LoadBalancerPoolFromResource(s, x)
        err == CallById(s, x)
        s1  == Log(Sending(s, {"name", "enabled"}
                           \cup Present(s, [latitude |-> 0, check_regions |-> {},
                                            description |-> ""])),
                   "ModifyLoadBalancerPool", err)
    IN  IF err # "ok" THEN Return(s1, err)
        ELSE resourceCloudflareLoadBalancerPoolRead(
                 [s1 EXCEPT !.remote.data = loadBalancerPool @@ [modified |-> "t2"]], x)

resourceCloudflareLoadBalancerPoolDelete(s, x) ==
    LET err == CallById(s, x)
        s1  == Log(s, "DeleteLoadBalancerPool", err)
    IN  IF err # "ok" THEN Return(s1, err)
        ELSE [s1 EXCEPT !.remote = NoRemote]

\* schema.ImportStatePassthrough: the external identifier is the identity
resourceCloudflareLoadBalancerPoolImport(s, x) == Imported(s, x, s.id)

---------------------------------------------------------------------------
(* cloudflare_magic_firewall_ruleset *)

\* one rule of buildMagicFirewallRulesetRulesFromResource
RuleFromResource(resourceRule) ==
    [Expression  |-> resourceRule.expression,
     Description |-> IF "description" \in DOMAIN resourceRule THEN resourceRule.description ELSE "",
     Enabled     |-> IF resourceRule.enabled = "true" THEN TRUE ELSE FALSE,
     Action      |-> IF resourceRule.action = "allow" THEN "skip" ELSE "block",
     ActionParameters |-> IF resourceRule.action = "allow" THEN "current" ELSE "nil"]

buildMagicFirewallRulesetRulesFromResource(r) == [i \in 1..Len(r) |-> RuleFromResource(r[i])]

\* a faulty conversion: it gives the state the action of the API unchanged
RuleToStateKeepingAction(rule) ==
    LET rulesetRule == [expression |-> rule.Expression,
                        enabled    |-> IF rule.Enabled = TRUE THEN "true" ELSE "false",
                        action     |-> rule.Action]
    IN  IF rule.Description # "" THEN rulesetRule @@ [description |-> rule.Description]
        ELSE rulesetRule

\* one rule of buildStateFromMagicFirewallRulesetRules
RuleToState(rule) ==
    LET rulesetRule == [expression |-> rule.Expression,
                        enabled    |-> IF rule.Enabled = TRUE THEN "true" ELSE "false",
                        action     |-> IF rule.Action = "skip" THEN "allow" ELSE "block"]
    IN  IF rule.Description # "" THEN rulesetRule @@ [description |-> rule.Description]
        ELSE rulesetRule

buildStateFromMagicFirewallRulesetRules(r) == [i \in 1..Len(r) |-> RuleToState(r[i])]

resourceCloudflareMagicFirewallRulesetRead(d, x) ==
    LET s == Invoked(d, "Read")
        err == FetchById(s, x)
        s1  == Log(s, "GetMagicFirewallRuleset", err)
        ruleset == s.remote.data
    IN  IF err # "ok"
        THEN IF ErrContains(err, ERulesetNotFound) THEN SetId(s1, EmptyStr)
             ELSE Return(s1, err)
        ELSE Set(Set(Set(s1, "name", ruleset.name),
                     "description", ruleset.description),
                 "rules", buildStateFromMagicFirewallRulesetRules(ruleset.rules))

resourceCloudflareMagicFirewallRulesetCreate(s, x) ==
    LET rules == buildMagicFirewallRulesetRulesFromResource(s.attrs.rules)
        err == CreateCall(s, x)
        s1  == Log(s, "CreateMagicFirewallRuleset", err)
        s2  == Created(s1, [name |-> s.attrs.name, description |-> s.attrs.description,
                            rules |-> rules])
    IN  IF err # "ok" THEN Return(s1, err)
        ELSE resourceCloudflareMagicFirewallRulesetRead(
                 SetId(s2, IF x.empty THEN EmptyStr ELSE s2.remote.rid), x)

resourceCloudflareMagicFirewallRulesetUpdate(s, x) ==
    LET rules == buildMagicFirewallRulesetRulesFromResource(s.attrs.rules)
        err == CallById(s, x)
        s1  == Log(Sending(s, {"description", "rules"}), "UpdateMagicFirewallRuleset", err)
    IN  IF err # "ok" THEN Return(s1, err)
        ELSE resourceCloudflareMagicFirewallRulesetRead(
                 [s1 EXCEPT !.remote.data.description = s.attrs.description,
                            !.remote.data.rules = rules], x)

resourceCloudflareMagicFirewallRulesetDelete(s, x) ==
    LET err == CallById(s, x)
        s1  == Log(s, "DeleteMagicFirewallRuleset", err)
    IN  IF err # "ok" THEN Return(s1, err)
        ELSE [s1 EXCEPT !.remote = NoRemote]

resourceCloudflareMagicFirewallRulesetImport(s, x) ==
    LET attributes == SplitN(s.id, 2)
    IN  IF Len(attributes) # 2 THEN Return(s, ErrInvalidId)
        ELSE LET s1 == Set(SetId(s, attributes[2]), "account_id", attributes[1])
                 r  == resourceCloudflareMagicFirewallRulesetRead(
                           Imported(s1, x, attributes[2]), x)
             IN  Return(r, "ok")

---------------------------------------------------------------------------
(* cloudflare_teams_list.  The remote item list is held as a set; the API  *)
(* lists it in some order, and the patch lists are held as sets (Go        *)
(* iterates over the counts map in no fixed order).                        *)

\* schema.Set.List(): the elements of a set, in the set's order
RECURSIVE List(_)
List(set) ==
    IF set = {} THEN <<>>
    ELSE LET e == CHOOSE v \in set : TRUE
         IN  <<e>> \o List(set \ {e})

Range(seq) == {seq[i] : i \in 1..Len(seq)}

\* counts[val] += delta for every val of items
RECURSIVE Count(_, _, _)
Count(counts, items, delta) ==
    IF items = <<>> THEN counts
    ELSE LET val == Head(items)
             cur == IF val \in DOMAIN counts THEN counts[val] ELSE 0
         IN  Count([k \in DOMAIN counts \cup {val} |->
                       IF k = val THEN cur + delta ELSE counts[k]],
                   Tail(items), delta)

\* a faulty diff: an item whose count is zero is appended again
SetListItemDiffResending(patchList, oldItems, newItems) ==
    LET counts == Count(Count(<<>>, newItems, 1), oldItems, -1)
    IN  [patchList EXCEPT
            !.Append = @ \cup {key \in DOMAIN counts : counts[key] >= 0},
            !.Remove = @ \cup {key \in DOMAIN counts : counts[key] < 0}]

setListItemDiff(patchList, oldItems, newItems) ==
    LET counts == Count(Count(<<>>, newItems, 1), oldItems, -1)
    IN  [patchList EXCEPT
            !.Append = @ \cup {key \in DOMAIN counts : counts[key] > 0},
            !.Remove = @ \cup {key \in DOMAIN counts : counts[key] < 0}]

Reverse(seq) == [i \in 1..Len(seq) |-> seq[Len(seq) + 1 - i]]

\* the API returns items in reverse order, so iterate backwards
convertListItemsToSchema(listItems) == Reverse(listItems)

\* client.TeamsListItems: the items of the list, newest first
TeamsListItems(items) == Reverse(List(items))

\* a faulty Read: when the list is gone it also blanks the items and asks
\* the API for them
TeamsListReadBlankingMissing(d, x) ==
    LET s == Invoked(d, "Read")
        err == FetchById(s, x)
        s1  == Log(s, "TeamsList", err)
        list == s.remote.data
        s2  == Set(Set(Set(s1, "name", list.name), "type", list.type),
                   "description", list.description)
        err2 == FetchById(s2, x)
        s3  == Log(s2, "TeamsListItems", err2)
    IN  IF err # "ok"
        THEN IF ErrContains(err, E404)
             THEN SetId(Set(Log(s1, "TeamsListItems", err), "items", {}), EmptyStr)
             ELSE Return(s1, err)
        ELSE IF err2 # "ok" THEN Return(s3, err2)
        ELSE Set(s3, "items", Range(convertListItemsToSchema(TeamsListItems(list.items))))

resourceCloudflareTeamsListRead(d, x) ==
    LET s == Invoked(d, "Read")
        err == FetchById(s, x)
        s1  == Log(s, "TeamsList", err)
        list == s.remote.data
        s2  == Set(Set(Set(s1, "name", list.name), "type", list.type),
                   "description", list.description)
        err2 == FetchById(s2, x)
        s3  == Log(s2, "TeamsListItems", err2)
    IN  IF err # "ok"
        THEN IF ErrContains(err, E404) THEN SetId(s1, EmptyStr)
             ELSE Return(s1, err)
        ELSE IF err2 # "ok" THEN Return(s3, err2)
        ELSE Set(s3, "items", Range(convertListItemsToSchema(TeamsListItems(list.items))))

resourceCloudflareTeamsListCreate(s, x) ==
    LET newTeamsList == [name |-> s.attrs.name, type |-> s.attrs.type,
                         description |-> s.attrs.description,
                         items |-> Range(List(s.attrs.items))]
        err == CreateCall(s, x)
        s1  == Log(s, "CreateTeamsList", err)
        s2  == Created(s1, newTeamsList)
    IN  IF err # "ok" THEN Return(s1, err)
        ELSE resourceCloudflareTeamsListRead(
                 SetId(s2, IF x.empty THEN EmptyStr ELSE s2.remote.rid), x)

\* a faulty Update: it sends the declared items as the whole list
TeamsListUpdateReplacingItems(s, x) ==
    LET err == CallById(s, x)
        s1  == Log(Sending(s, {"name", "type", "description"}), "UpdateTeamsList", err)
        s2  == [s1 EXCEPT !.remote.data.name = s.attrs.name,
                          !.remote.data.type = s.attrs.type,
                          !.remote.data.description = s.attrs.description]
        err2 == CallById(s2, x)
        s3  == Log(Sending(s2, {"items"}), "PatchTeamsList", err2)
        s4  == [s3 EXCEPT !.remote.data.items = s.attrs.items]
    IN  IF err # "ok" THEN Return(s1, err)
        ELSE IF x.empty THEN Return(s2, ErrEmptyResponse)
        ELSE IF HasChange(s, "items")
             THEN IF err2 # "ok" THEN Return(s3, err2)
                  ELSE resourceCloudflareTeamsListRead(s4, x)
        ELSE resourceCloudflareTeamsListRead(s2, x)

resourceCloudflareTeamsListUpdate(s, x) ==
    LET err == CallById(s, x)
        s1  == Log(Sending(s, {"name", "type", "description"}), "UpdateTeamsList", err)
        s2  == [s1 EXCEPT !.remote.data.name = s.attrs.name,
                          !.remote.data.type = s.attrs.type,
                          !.remote.data.description = s.attrs.description]
        patchTeamsList == setListItemDiff([ID |-> s.id, Append |-> {}, Remove |-> {}],
                                          List(s.old.items), List(s.attrs.items))
        err2 == CallById(s2, x)
        s3  == Log(Sending(s2, {"items"}), "PatchTeamsList", err2)
        s4  == [s3 EXCEPT !.remote.data.items =
                              (@ \cup patchTeamsList.Append) \ patchTeamsList.Remove]
    IN  IF err # "ok" THEN Return(s1, err)
        ELSE IF x.empty THEN Return(s2, ErrEmptyResponse)
        ELSE IF HasChange(s, "items")
             THEN IF err2 # "ok" THEN Return(s3, err2)
                  ELSE resourceCloudflareTeamsListRead(s4, x)
        ELSE resourceCloudflareTeamsListRead(s2, x)

resourceCloudflareTeamsListDelete(s, x) ==
    LET err == CallById(s, x)
        s1  == Log(s, "DeleteTeamsList", err)
        r   == resourceCloudflareTeamsListRead([s1 EXCEPT !.remote = NoRemote], x)
    IN  IF err # "ok" THEN Return(s1, err)
        ELSE Return(r, "ok")

resourceCloudflareTeamsListImport(s, x) ==
    LET attributes == SplitN(s.id, 2)
    IN  IF Len(attributes) # 2 THEN Return(s, ErrInvalidId)
        ELSE LET s1 == SetId(Set(s, "account_id", attributes[1]), attributes[2])
                 r  == resourceCloudflareTeamsListRead(Imported(s1, x, attributes[2]), x)
             IN  Return(r, "ok")

---------------------------------------------------------------------------
(* cloudflare_certificate_pack.  validity_days, certificate_authority and  *)
(* cloudflare_branding are sent like validation_method, and                *)
(* validation_records is read like validation_errors.                      *)

resourceCloudflareCertificatePackRead(d, x) ==
    LET s == Invoked(d, "Read")
        err == FetchById(s, x)
        s1  == Log(s, "CertificatePack", err)
        certificatePack == s.remote.data
        s2  == Set(Set(s1, "type", certificatePack.type),
                   "hosts", Range(certificatePack.hosts))
    IN  IF err # "ok" THEN Return(s1, err)
        ELSE IF ~certificatePack.validation_errors.nil
             THEN Set(s2, "validation_errors",
                      [i \in 1..Len(certificatePack.validation_errors.v) |->
                          [message |-> certificatePack.validation_errors.v[i]]])
        ELSE s2

resourceCloudflareCertificatePackCreate(s, x) ==
    LET cert == [type |-> IF s.attrs.type = "advanced" THEN "advanced" ELSE s.attrs.type,
                 hosts |-> List(s.attrs.hosts),
                 validation_errors |-> [nil |-> TRUE]]
        err == CreateCall(s, x)
        s1  == Log(s, IF s.attrs.type = "advanced" THEN "CreateAdvancedCertificatePack"
                      ELSE "CreateCertificatePack", err)
        s2  == Created(s1, cert)
    IN  IF err # "ok" THEN Return(s1, err)
        ELSE resourceCloudflareCertificatePackRead(
                 SetId(s2, IF x.empty THEN EmptyStr ELSE s2.remote.rid), x)

resourceCloudflareCertificatePackDelete(s, x) ==
    LET err == CallById(s, x)
        s1  == Log(s, "DeleteCertificatePack", err)
        r   == resourceCloudflareCertificatePackRead([s1 EXCEPT !.remote = NoRemote], x)
    IN  IF err # "ok" THEN Return(s1, err)
        ELSE Return(r, "ok")

resourceCloudflareCertificatePackImport(s, x) ==
    LET attributes == SplitN(s.id, 2)
    IN  IF Len(attributes) # 2 THEN Return(s, ErrInvalidId)
        ELSE LET s1 == SetId(Set(s, "zone_id", attributes[1]), attributes[2])
                 r  == resourceCloudflareCertificatePackRead(
                           Imported(s1, x, attributes[2]), x)
             IN  Return(r, "ok")

---------------------------------------------------------------------------
(* cloudflare_byo_ip_prefix: the prefix is provisioned out of band; Create *)
(* only adopts it.                                                         *)

boolFromString(status) == status = "on"

stringFromBool(status) == IF status THEN "on" ELSE "off"

resourceCloudflareBYOIPPrefixRead(d, x) ==
    LET s == Invoked(d, "Read")
        err == FetchById(s, x)
        s1  == Log(s, "GetPrefix", err)
        s2  == Set(s1, "description", s.remote.data.description)
        err2 == FetchById(s2, x)
        s3  == Log(s2, "GetAdvertisementStatus", err2)
    IN  IF err # "ok" THEN Return(s1, err)
        ELSE IF err2 # "ok" THEN Return(s3, err2)
        ELSE Set(s3, "advertisement", stringFromBool(s.remote.data.advertised))

\* a faulty Update: it sends the description whether it changed or not
BYOIPPrefixUpdateSendingUnchanged(s, x) ==
    LET doDesc == GetOk(s, "description", "").ok
        err == CallById(s, x)
        s1  == IF ~doDesc THEN s
               ELSE IF err # "ok"
                    THEN Return(Log(Sending(s, {"description"}), "UpdatePrefixDescription", err),
                                err)
               ELSE [Log(Sending(s, {"description"}), "UpdatePrefixDescription", err)
                        EXCEPT !.remote.data.description = s.attrs.description]
        doAdv == GetOk(s, "advertisement", "").ok /\ HasChange(s, "advertisement")
        err2 == CallById(s1, x)
    IN  IF s1.ret # "ok" \/ ~doAdv THEN s1
        ELSE IF err2 # "ok"
             THEN Return(Log(Sending(s1, {"advertisement"}), "UpdateAdvertisementStatus", err2),
                         err2)
        ELSE [Log(Sending(s1, {"advertisement"}), "UpdateAdvertisementStatus", err2)
                 EXCEPT !.remote.data.advertised = boolFromString(s.attrs.advertisement)]

\* a faulty Update: when the advertisement fails it sends the prior
\* description again
BYOIPPrefixUpdateRollingBack(s, x) ==
    LET doDesc == GetOk(s, "description", "").ok /\ HasChange(s, "description")
        err == CallById(s, x)
        s1  == IF ~doDesc THEN s
               ELSE IF err # "ok"
                    THEN Return(Log(Sending(s, {"description"}), "UpdatePrefixDescription", err),
                                err)
               ELSE [Log(Sending(s, {"description"}), "UpdatePrefixDescription", err)
                        EXCEPT !.remote.data.description = s.attrs.description]
        doAdv == GetOk(s, "advertisement", "").ok /\ HasChange(s, "advertisement")
        err2 == CallById(s1, x)
        s2  == Log(Sending(s1, {"advertisement"}), "UpdateAdvertisementStatus", err2)
    IN  IF s1.ret # "ok" \/ ~doAdv THEN s1
        ELSE IF err2 # "ok"
             THEN Return([Log(s2, "UpdatePrefixDescription", "ok")
                             EXCEPT !.remote.data.description = s.old.description], err2)
        ELSE [s2 EXCEPT !.remote.data.advertised = boolFromString(s.attrs.advertisement)]

resourceCloudflareBYOIPPrefixUpdate(s, x) ==
    LET doDesc == GetOk(s, "description", "").ok /\ HasChange(s, "description")
        err == CallById(s, x)
        s1  == IF ~doDesc THEN s
               ELSE IF err # "ok" THEN Return(Log(Sending(s, {"description"}), "UpdatePrefixDescription", err), err)
               ELSE [Log(Sending(s, {"description"}), "UpdatePrefixDescription", err)
                        EXCEPT !.remote.data.description = s.attrs.description]
        doAdv == GetOk(s, "advertisement", "").ok /\ HasChange(s, "advertisement")
        err2 == CallById(s1, x)
    IN  IF s1.ret # "ok" \/ ~doAdv THEN s1
        ELSE IF err2 # "ok" THEN Return(Log(Sending(s1, {"advertisement"}), "UpdateAdvertisementStatus", err2), err2)
        ELSE [Log(Sending(s1, {"advertisement"}), "UpdateAdvertisementStatus", err2)
                 EXCEPT !.remote.data.advertised = boolFromString(s.attrs.advertisement)]

resourceCloudflareBYOIPPrefixCreate(s, x) ==
    LET r == resourceCloudflareBYOIPPrefixUpdate(SetId(s, s.attrs.prefix_id), x)
    IN  IF r.ret # "ok" THEN r
        ELSE resourceCloudflareBYOIPPrefixRead(r, x)

\* a faulty Delete: it asks the API to delete the prefix
BYOIPPrefixDeleteCallingAPI(s, x) ==
    LET err == CallById(s, x)
        s1  == Log(s, "DeletePrefix", err)
    IN  IF err # "ok" THEN Return(s1, err)
        ELSE [s1 EXCEPT !.remote = NoRemote]

\* deletion of prefixes is not supported: a dummy
resourceCloudflareBYOIPPrefixDelete(s, x) == s

resourceCloudflareBYOIPPrefixImport(s, x) ==
    LET s1 == Set(s, "prefix_id", s.id)
        r  == resourceCloudflareBYOIPPrefixRead(Imported(s1, x, s.id), x)
    IN  Return(r, "ok")

---------------------------------------------------------------------------
(* cloudflare_waf_override.  priority is handled like paused, groups and   *)
(* rewrite_action like rules.  A map is a function; the empty map is <<>>. *)

buildWAFOverride(s) ==
    [urls        |-> s.attrs.urls,
     rules       |-> IF GetOk(s, "rules", <<>>).ok THEN s.attrs.rules ELSE <<>>,
     paused      |-> IF GetOk(s, "paused", FALSE).ok THEN s.attrs.paused ELSE FALSE,
     description |-> IF GetOk(s, "description", "").ok THEN s.attrs.description ELSE ""]

resourceCloudflareWAFOverrideRead(d, x) ==
    LET s == Invoked(d, "Read")
        err == FetchById(s, x)
        s1  == Log(s, "WAFOverride", err)
        override == s.remote.data
        s2  == Set(Set(Set(Set(s1, "zone_id", s.attrs.zone_id),
                           "urls", override.urls),
                       "paused", override.paused),
                   "description", override.description)
        s3  == IF DOMAIN override.rules # {} THEN Set(s2, "rules", override.rules) ELSE s2
    IN  IF err # "ok"
        THEN IF ErrContains(err, EWafNotFound) THEN SetId(s1, EmptyStr)
             ELSE Return(s1, err)
        ELSE Set(s3, "override_id", s.remote.rid)

resourceCloudflareWAFOverrideCreate(s, x) ==
    LET newOverride == buildWAFOverride(s)
        err == CreateCall(s, x)
        s1  == Log(s, "CreateWAFOverride", err)
        s2  == Created(s1, newOverride)
    IN  IF err # "ok" THEN Return(s1, err)
        ELSE resourceCloudflareWAFOverrideRead(
                 SetId(s2, IF x.empty THEN EmptyStr ELSE s2.remote.rid), x)

resourceCloudflareWAFOverrideUpdate(s, x) ==
    LET overrideID == s.attrs.override_id
        updatedOverride == buildWAFOverride(s)
        err == CallAt(s, x, overrideID)
        s1  == Log(Sending(s, {"urls"} \cup Present(s, [rules |-> <<>>, paused |-> FALSE,
                                                        description |-> ""])),
                   "UpdateWAFOverride", err)
    IN  IF err # "ok" THEN Return(s1, err)
        ELSE resourceCloudflareWAFOverrideRead(
                 [s1 EXCEPT !.remote.data = updatedOverride], x)

resourceCloudflareWAFOverrideDelete(s, x) ==
    LET overrideID == s.attrs.override_id
        err == CallAt(s, x, overrideID)
        s1  == Log(s, "DeleteWAFOverride", err)
    IN  IF err # "ok" THEN Return(s1, err)
        ELSE resourceCloudflareWAFOverrideRead([s1 EXCEPT !.remote = NoRemote], x)

resourceCloudflareWAFOverrideImport(s, x) ==
    LET idAttr == SplitN(s.id, 2)
    IN  IF Len(idAttr) # 2 THEN Return(s, ErrInvalidId)
        ELSE LET s1 == SetId(Set(Set(s, "zone_id", idAttr[1]), "override_id", idAttr[2]),
                             idAttr[2])
                 r  == resourceCloudflareWAFOverrideRead(Imported(s1, x, idAttr[2]), x)
             IN  Return(r, "ok")

---------------------------------------------------------------------------
(* cloudflare_access_keys_configuration: one configuration per account,    *)
(* addressed by account_id; error code 12109 says it is not enabled.       *)

resourceCloudflareAccessKeysConfigurationRead(d, x) ==
    LET s == Invoked(d, "Read")
        accountID == s.attrs.account_id
        err == CallAt(s, x, accountID)
        s1  == Log(s, "AccessKeysConfig", err)
    IN  IF err # "ok"
        THEN IF err = E12109 THEN SetId(s1, EmptyStr)
             ELSE Return(s1, err)
        ELSE Set(SetId(s1, accountID), "key_rotation_interval_days",
                 s.remote.data.key_rotation_interval_days)

\* a faulty Update: it writes the configuration of whichever account the API
\* holds one for
AccessKeysUpdateOfAnyAccount(s, x) ==
    LET accountID == IF s.remote.exists THEN s.remote.rid ELSE s.attrs.account_id
        err == CallAt(s, x, accountID)
        s1  == Log(Sending(s, {"key_rotation_interval_days"}), "UpdateAccessKeysConfig", err)
    IN  IF err # "ok" THEN Return(s1, err)
        ELSE resourceCloudflareAccessKeysConfigurationRead(
                 [s1 EXCEPT !.remote.data.key_rotation_interval_days =
                                s.attrs.key_rotation_interval_days], x)

resourceCloudflareAccessKeysConfigurationUpdate(s, x) ==
    LET accountID == s.attrs.account_id
        err == CallAt(s, x, accountID)
        s1  == Log(Sending(s, {"key_rotation_interval_days"}), "UpdateAccessKeysConfig", err)
    IN  IF err # "ok" THEN Return(s1, err)
        ELSE resourceCloudflareAccessKeysConfigurationRead(
                 [s1 EXCEPT !.remote.data.key_rotation_interval_days =
                                s.attrs.key_rotation_interval_days], x)

resourceCloudflareAccessKeysConfigurationCreate(s, x) ==
    IF s.attrs.key_rotation_interval_days = 0
    THEN resourceCloudflareAccessKeysConfigurationRead(s, x)
    ELSE resourceCloudflareAccessKeysConfigurationUpdate(s, x)

\* the configuration shares the lifetime of the organization: a no-op
resourceCloudflareKeysConfigurationDelete(s, x) == s

resourceCloudflareKeysConfigurationImport(s, x) ==
    LET accountID == s.id
        s1 == Set(SetId(s, accountID), "account_id", accountID)
    IN  resourceCloudflareAccessKeysConfigurationRead(Imported(s1, x, accountID), x)

---------------------------------------------------------------------------
(* cloudflare_account_member *)

resourceCloudflareAccountMemberRead(d, x) ==
    LET s == Invoked(d, "Read")
        err == FetchById(s, x)
        s1  == Log(s, "AccountMember", err)
    IN  IF err # "ok"
        THEN IF ErrContains(err, EMemberNotFound) \/ ErrContains(err, E404)
             THEN SetId(s1, EmptyStr)
             ELSE Return(s1, err)
        ELSE SetId(s1, s1.id)

resourceCloudflareAccountMemberDelete(s, x) ==
    LET err == CallById(s, x)
        s1  == Log(s, "DeleteAccountMember", err)
    IN  IF err # "ok" THEN Return(s1, err)
        ELSE [s1 EXCEPT !.remote = NoRemote]

resourceCloudflareAccountMemberCreate(s, x) ==
    LET err == CreateCall(s, x)
        s1  == Log(s, "CreateAccountMember", err)
        s2  == Created(s1, [email |-> s.attrs.email_address, roles |-> s.attrs.role_ids])
    IN  IF err # "ok" THEN Return(s1, err)
        ELSE IF x.empty THEN Return(s2, ErrEmptyResponse)
        ELSE resourceCloudflareAccountMemberRead(SetId(s2, s2.remote.rid), x)

\* the role lookups of Update: one remote call per role, its error dropped
RECURSIVE AccountRoles(_, _, _)
AccountRoles(s, x, memberRoles) ==
    IF memberRoles = <<>> THEN [s |-> s, roles |-> <<>>]
    ELSE LET err  == IF Fails(s, x) THEN E500 ELSE "ok"
             rest == AccountRoles(Log(s, "AccountRole", err), x, Tail(memberRoles))
         IN  [s |-> rest.s,
              roles |-> <<IF err = "ok" THEN Head(memberRoles) ELSE "">> \o rest.roles]

resourceCloudflareAccountMemberUpdate(s, x) ==
    LET looked == AccountRoles(s, x, s.attrs.role_ids)
        s0  == looked.s
        err == CallById(s0, x)
        s1  == Log(Sending(s0, {"role_ids"}), "UpdateAccountMember", err)
    IN  IF err # "ok" THEN Return(s1, err)
        ELSE resourceCloudflareAccountMemberRead(
                 [s1 EXCEPT !.remote.data.roles = looked.roles], x)

---------------------------------------------------------------------------
(* cloudflare_worker_cron_trigger: the schedules of one worker script,     *)
(* addressed by script_name; the script itself is deployed out of band.    *)

transformWorkerCronTriggerStructToSet(triggers) == {triggers[i].cron : i \in DOMAIN triggers}

transformSchemaToWorkerCronTriggerStruct(s) ==
    LET schedules == List(s.attrs.schedules)
    IN  [i \in DOMAIN schedules |-> [cron |-> schedules[i]]]

resourceCloudflareWorkerCronTriggerUpdate(s, x) ==
    LET scriptName == s.attrs.script_name
        err == CallAt(s, x, scriptName)
        s1  == Log(Sending(s, {"schedules"}), "UpdateWorkerCronTriggers", err)
    IN  IF err # "ok" THEN Return(s1, err)
        ELSE SetId([s1 EXCEPT !.remote.data.schedules =
                                  transformSchemaToWorkerCronTriggerStruct(s)],
                   stringChecksum(scriptName))

resourceCloudflareWorkerCronTriggerRead(d, x) ==
    LET s == Invoked(d, "Read")
        scriptName == s.attrs.script_name
        err == CallAt(s, x, scriptName)
        s1  == Log(s, "ListWorkerCronTriggers", err)
    IN  IF err # "ok"
        THEN IF ErrContains(err, EScriptNotFound) THEN SetId(s1, EmptyStr)
             ELSE Return(s1, err)
        ELSE Set(s1, "schedules",
                 transformWorkerCronTriggerStructToSet(s.remote.data.schedules))

resourceCloudflareWorkerCronTriggerDelete(s, x) ==
    LET scriptName == s.attrs.script_name
        err == CallAt(s, x, scriptName)
        s1  == Log(s, "UpdateWorkerCronTriggers", err)
        s2  == IF err = "ok" THEN [s1 EXCEPT !.remote.data.schedules = <<>>] ELSE s1
    IN  SetId(s2, EmptyStr)

resourceCloudflareWorkerCronTriggerImport(s, x) ==
    LET r == resourceCloudflareWorkerCronTriggerRead(SetId(s, stringChecksum(s.id)), x)
    IN  Return(r, "ok")

---------------------------------------------------------------------------
(* cloudflare_custom_pages: one page per page type and zone or account,    *)
(* addressed by its type; every page exists, in state "default" until it   *)
(* is customized.                                                          *)

resourceCloudflareCustomPagesRead(d, x) ==
    LET s == Invoked(d, "Read")
        zoneID == s.attrs.zone_id
        accountID == s.attrs.account_id
        pageType == s.attrs.type
        identifier == IF accountID # EmptyStr THEN accountID ELSE zoneID
        err == CallAt(s, x, pageType)
        s1  == Log(s, "CustomPage", err)
        page == s.remote.data
        checksum == stringChecksum(identifier \o <<"/">> \o s.remote.rid)
    IN  IF accountID = EmptyStr /\ zoneID = EmptyStr THEN Return(s, "must be set")
        ELSE IF err # "ok" THEN Return(s1, err)
        ELSE IF page.state = "default" THEN SetId(s1, EmptyStr)
        ELSE Set(Set(Set(SetId(s1, checksum), "state", page.state), "url", page.url),
                 "type", s.remote.rid)

resourceCloudflareCustomPagesUpdate(s, x) ==
    LET pageType == s.attrs.type
        err == CallAt(s, x, pageType)
        s1  == Log(Sending(s, {"url"}), "UpdateCustomPage", err)
    IN  IF err # "ok" THEN Return(s1, err)
        ELSE resourceCloudflareCustomPagesRead(
                 [s1 EXCEPT !.remote.data = [state |-> "customized", url |-> s.attrs.url]], x)

\* a faulty Delete: it clears the URL and leaves the page customized
CustomPagesDeleteKeepingState(s, x) ==
    LET pageType == s.attrs.type
        err == CallAt(s, x, pageType)
        s1  == Log(s, "UpdateCustomPage", err)
    IN  IF err # "ok" THEN Return(s1, err)
        ELSE resourceCloudflareCustomPagesRead(
                 [s1 EXCEPT !.remote.data = [state |-> "customized", url |-> ""]], x)

resourceCloudflareCustomPagesDelete(s, x) ==
    LET pageType == s.attrs.type
        err == CallAt(s, x, pageType)
        s1  == Log(s, "UpdateCustomPage", err)
    IN  IF err # "ok" THEN Return(s1, err)
        ELSE resourceCloudflareCustomPagesRead(
                 [s1 EXCEPT !.remote.data = [state |-> "default", url |-> ""]], x)

resourceCloudflareCustomPagesImport(s, x) ==
    LET attributes == SplitN(s.id, 3)
    IN  IF Len(attributes) # 3 THEN Return(s, ErrInvalidId)
        ELSE LET requestType == attributes[1]
                 identifier  == attributes[2]
                 pageType    == attributes[3]
                 s1 == Set(s, "type", pageType)
                 s2 == IF requestType = <<"account">> THEN Set(s1, "account_id", identifier)
                       ELSE Set(s1, "zone_id", identifier)
                 checksum == stringChecksum(identifier \o <<"/">> \o pageType)
                 r  == resourceCloudflareCustomPagesRead(SetId(s2, checksum), x)
             IN  Return(r, "ok")

---------------------------------------------------------------------------
(* cloudflare_custom_hostname_fallback_origin: one per zone, addressed by  *)
(* zone_id.  Create and Update run their body under resource.Retry: one    *)
(* call of the body is one attempt.                                        *)

ErrRetryable == "retryable"

\* resource.RetryableError / resource.NonRetryableError
RetryableError(s) == Return(s, ErrRetryable)
NonRetryableError(s, err) == Return(s, err)

\* the statuses the API gives an origin that was just written
FallbackOriginStatuses == {"initializing", "pending_deployment"}

FallbackOriginId(zoneID) == stringChecksum(zoneID \o <<"/custom_hostnames_fallback_origin">>)

\* client.UpdateCustomHostnameFallbackOrigin: code 1414 while the custom
\* hostname is still pending
UpdateFallbackOriginCall(s, x) ==
    IF Fails(s, x) THEN E500 ELSE IF x.busy THEN E1414 ELSE "ok"

\* the origin after a successful write; fresh: the write made a new entity
\* (an Update that writes the origin anew after its deletion is counted as
\* writing the same entity)
FallbackOriginWritten(s, x, origin, fresh) ==
    [s EXCEPT !.remote = [exists |-> TRUE, rid |-> s.attrs.zone_id,
                          data |-> [origin |-> origin, status |-> x.status]],
              !.created = IF fresh THEN @ + 1 ELSE @]

resourceCloudflareCustomHostnameFallbackOriginRead(d, x) ==
    LET s == Invoked(d, "Read")
        zoneID == s.attrs.zone_id
        err == CallAt(s, x, zoneID)
        s1  == Log(s, "CustomHostnameFallbackOrigin", err)
    IN  IF err # "ok" THEN Return(s1, err)
        ELSE Set(Set(s1, "origin", s.remote.data.origin), "status", s.remote.data.status)

resourceCloudflareCustomHostnameFallbackOriginDelete(s, x) ==
    LET zoneID == s.attrs.zone_id
        err == CallAt(s, x, zoneID)
        s1  == Log(s, "DeleteCustomHostnameFallbackOrigin", err)
    IN  IF err # "ok" THEN Return(s1, err)
        ELSE [s1 EXCEPT !.remote = NoRemote]

\* a faulty attempt: code 1414 is not retried
FallbackOriginCreateAbortingOn1414(s, x) ==
    LET zoneID == s.attrs.zone_id
        err == UpdateFallbackOriginCall(s, x)
        s1  == Log(Sending(s, {"origin"}), "UpdateCustomHostnameFallbackOrigin", err)
        s2  == FallbackOriginWritten(s1, x, s.attrs.origin, ~Found(s, s.attrs.zone_id))
        err2 == CallAt(s2, x, zoneID)
        s3  == Log(s2, "CustomHostnameFallbackOrigin", err2)
        fallbackHostname == s2.remote.data
        r   == resourceCloudflareCustomHostnameFallbackOriginRead(
                   SetId(s3, FallbackOriginId(zoneID)), x)
    IN  IF err # "ok" THEN NonRetryableError(s1, err)
        ELSE IF err2 # "ok" THEN NonRetryableError(s3, err2)
        ELSE IF fallbackHostname.status # "pending_deployment"
                /\ fallbackHostname.status # "active"
             THEN RetryableError(s3)
        ELSE Return(r, "ok")

\* a faulty attempt: it stores the identity as soon as the origin is written
FallbackOriginCreateStoringEarly(s, x) ==
    LET zoneID == s.attrs.zone_id
        err == UpdateFallbackOriginCall(s, x)
        s1  == Log(Sending(s, {"origin"}), "UpdateCustomHostnameFallbackOrigin", err)
        s2  == SetId(FallbackOriginWritten(s1, x, s.attrs.origin, ~Found(s, s.attrs.zone_id)),
                     FallbackOriginId(zoneID))
        err2 == CallAt(s2, x, zoneID)
        s3  == Log(s2, "CustomHostnameFallbackOrigin", err2)
        fallbackHostname == s2.remote.data
        r   == resourceCloudflareCustomHostnameFallbackOriginRead(s3, x)
    IN  IF err # "ok"
        THEN IF err = E1414 THEN RetryableError(s1) ELSE NonRetryableError(s1, err)
        ELSE IF err2 # "ok" THEN NonRetryableError(s3, err2)
        ELSE IF fallbackHostname.status # "pending_deployment"
                /\ fallbackHostname.status # "active"
             THEN RetryableError(s3)
        ELSE Return(r, "ok")

\* one attempt of the body Create hands to resource.Retry
resourceCloudflareCustomHostnameFallbackOriginCreate(s, x) ==
    LET zoneID == s.attrs.zone_id
        err == UpdateFallbackOriginCall(s, x)
        s1  == Log(Sending(s, {"origin"}), "UpdateCustomHostnameFallbackOrigin", err)
        s2  == FallbackOriginWritten(s1, x, s.attrs.origin, ~Found(s, s.attrs.zone_id))
        err2 == CallAt(s2, x, zoneID)
        s3  == Log(s2, "CustomHostnameFallbackOrigin", err2)
        fallbackHostname == s2.remote.data
        r   == resourceCloudflareCustomHostnameFallbackOriginRead(
                   SetId(s3, FallbackOriginId(zoneID)), x)
    IN  IF err # "ok"
        THEN IF err = E1414 THEN RetryableError(s1) ELSE NonRetryableError(s1, err)
        ELSE IF err2 # "ok" THEN NonRetryableError(s3, err2)
        ELSE IF fallbackHostname.status # "pending_deployment"
                /\ fallbackHostname.status # "active"
             THEN RetryableError(s3)
        ELSE Return(r, "ok")

\* a faulty attempt of Update: code 1414 fails the Update at once
FallbackOriginUpdateAbortingOn1414(s, x) ==
    LET err == UpdateFallbackOriginCall(s, x)
        s1  == Log(Sending(s, {"origin"}), "UpdateCustomHostnameFallbackOrigin", err)
        s2  == FallbackOriginWritten(s1, x, s.attrs.origin, Elsewhere(s, s.attrs.zone_id))
        r   == resourceCloudflareCustomHostnameFallbackOriginRead(s2, x)
    IN  IF err # "ok" THEN NonRetryableError(s1, err)
        ELSE Return(r, "ok")

\* one attempt of the body Update hands to resource.Retry
resourceCloudflareCustomHostnameFallbackOriginUpdate(s, x) ==
    LET err == UpdateFallbackOriginCall(s, x)
        s1  == Log(Sending(s, {"origin"}), "UpdateCustomHostnameFallbackOrigin", err)
        s2  == FallbackOriginWritten(s1, x, s.attrs.origin, Elsewhere(s, s.attrs.zone_id))
        r   == resourceCloudflareCustomHostnameFallbackOriginRead(s2, x)
    IN  IF err # "ok"
        THEN IF err = E1414 THEN RetryableError(s1) ELSE NonRetryableError(s1, err)
        ELSE Return(r, "ok")

resourceCloudflareCustomHostnameFallbackOriginImport(s, x) ==
    LET idAttr == SplitN(s.id, 2)
    IN  IF Len(idAttr) # 2 THEN Return(s, ErrInvalidId)
        ELSE SetId(Set(Set(s, "zone_id", idAttr[1]), "origin", idAttr[2]),
                   FallbackOriginId(idAttr[1]))

---------------------------------------------------------------------------
(* cloudflare_authenticated_origin_pulls_certificate: uploaded through the *)
(* per-zone or the per-hostname endpoints; a certificate is found only     *)
(* through the endpoints it was uploaded to.  issuer, signature and        *)
(* uploaded_on are read like status and expires_on.                        *)

\* the statuses the API gives a certificate that was just uploaded
AOPCertificateStatuses == {"pending_deployment", "active"}

\* a faulty switch: a type that is neither takes the per-zone case
AOPCaseDefaultingToPerZone(s) ==
    LET t == GetOk(s, "type", EmptyStr)
    IN  IF (t.v = PerHostname) = t.ok THEN PerHostname
        ELSE PerZone

\* switch aopType, ok := d.GetOk("type"); ok { case aopType == ...: }
\* the case taken is the first whose condition equals ok
AOPCase(s) ==
    LET t == GetOk(s, "type", EmptyStr)
    IN  IF (t.v = PerZone) = t.ok THEN PerZone
        ELSE IF (t.v = PerHostname) = t.ok THEN PerHostname
        ELSE EmptyStr

\* the client functions of the two families of endpoints
AOPUploadAPI(family) ==
    IF family = PerHostname THEN "UploadPerHostnameAuthenticatedOriginPullsCertificate"
    ELSE "UploadPerZoneAuthenticatedOriginPullsCertificate"

AOPFetchAPI(family) ==
    IF family = PerHostname THEN "GetPerHostnameAuthenticatedOriginPullsCertificate"
    ELSE "GetPerZoneAuthenticatedOriginPullsCertificateDetails"

AOPDeleteAPI(family) ==
    IF family = PerHostname THEN "DeletePerHostnameAuthenticatedOriginPullsCertificate"
    ELSE "DeletePerZoneAuthenticatedOriginPullsCertificate"

\* a call on certificate d.Id() through the endpoints of one family
AOPCall(s, x, family) ==
    IF Fails(s, x) THEN E500
    ELSE IF ~(Found(s, s.id) /\ s.remote.data.family = family) THEN x.nf
    ELSE "ok"

resourceCloudflareAuthenticatedOriginPullsCertificateRead(d, x) ==
    LET s == Invoked(d, "Read")
        family == AOPCase(s)
        err == AOPCall(s, x, family)
        s1  == Log(s, AOPFetchAPI(family), err)
        record == s.remote.data
        s2  == Set(Set(s1, "expires_on", FormatRFC3339Nano(record.expires)),
                   "status", record.status)
    IN  IF family = EmptyStr THEN s
        ELSE IF err # "ok"
             THEN IF ErrContains(err, E404) THEN SetId(s1, EmptyStr)
                  ELSE Return(s1, err)
        ELSE IF family = PerHostname THEN Set(s2, "serial_number", record.serial)
        ELSE s2

\* Create up to resource.Retry: the upload and d.SetId(record.ID)
AOPCertificateUpload(s, x) ==
    LET family == AOPCase(s)
        err == CreateCall(s, x)
        s1  == Log(s, AOPUploadAPI(family), err)
        s2  == Created(s1, [family |-> family, status |-> x.status,
                            expires |-> "000000000Z", serial |-> "1000"])
    IN  IF family = EmptyStr THEN s
        ELSE IF err # "ok" THEN Return(s1, err)
        ELSE SetId(s2, IF x.empty THEN EmptyStr ELSE s2.remote.rid)

\* one attempt of the body Create hands to resource.Retry
resourceCloudflareAuthenticatedOriginPullsCertificateCreate(s, x) ==
    LET family == AOPCase(s)
        err == AOPCall(s, x, family)
        s1  == Log(s, AOPFetchAPI(family), err)
        resp == s.remote.data
        r   == resourceCloudflareAuthenticatedOriginPullsCertificateRead(s1, x)
    IN  IF err # "ok" THEN NonRetryableError(s1, err)
        ELSE IF resp.status # "active" THEN RetryableError(s1)
        ELSE Return(r, "ok")

resourceCloudflareAuthenticatedOriginPullsCertificateDelete(s, x) ==
    LET family == AOPCase(s)
        err == AOPCall(s, x, family)
        s1  == Log(s, AOPDeleteAPI(family), err)
    IN  IF family = EmptyStr THEN s
        ELSE IF err # "ok" THEN Return(s1, err)
        ELSE [s1 EXCEPT !.remote = NoRemote]

resourceCloudflareAuthenticatedOriginPullsCertificateImport(s, x) ==
    LET idAttr == SplitN(s.id, 3)
    IN  IF Len(idAttr) # 3 THEN Return(s, ErrInvalidId)
        ELSE LET s1 == SetId(Set(Set(s, "zone_id", idAttr[1]), "type", idAttr[2]), idAttr[3])
                 r  == resourceCloudflareAuthenticatedOriginPullsCertificateRead(
                           Imported(s1, x, idAttr[3]), x)
             IN  Return(r, "ok")

---------------------------------------------------------------------------
(* The host: it hands the handler the resource data and keeps what the     *)
(* handler leaves in it.                                                   *)

Kinds ==
    {"filter", "load_balancer_pool", "magic_firewall_ruleset", "teams_list",
     "certificate_pack", "byo_ip_prefix", "waf_override", "access_keys_configuration",
     "account_member", "worker_cron_trigger", "custom_pages",
     "custom_hostname_fallback_origin", "authenticated_origin_pulls_certificate"}

\* the external identifiers handed to Import: one per number of segments, up
\* to one segment more than the resource type expects
ExternalIds(k) ==
    UNION {Joined(Segments(k), n) : n \in {m \in 1..MaxSegments : m <= Len(Segments(k))}}

\* the errors with which the API of a resource type reports a missing entity
NotFoundErrors(k) ==
    CASE k = "magic_firewall_ruleset" -> {ERulesetNotFound}
      [] k = "waf_override" -> {EWafNotFound}
      [] k = "access_keys_configuration" -> {E12109}
      [] k = "account_member" -> {EMemberNotFound, E404}
      [] k = "worker_cron_trigger" -> {EScriptNotFound}
      [] OTHER -> {E404}

\* d as the handler sees it: planned values a over the prior state o
Begin(a, o) ==
    [id |-> id, attrs |-> a, old |-> o, remote |-> remote, calls |-> <<>>, marks |-> <<>>,
     created |-> created, ret |-> "ok", arg |-> EmptyStr]

\* the planned attributes of a Create: the declared values, computed
\* attributes unknown
Fresh(cfg) ==
    [k \in DOMAIN ZeroAttrs(kind) |-> IF k \in DOMAIN cfg THEN cfg[k] ELSE ZeroAttrs(kind)[k]]

\* the planned attributes of an Update: the declared values over the
\* computed values of the prior state
Planned(cfg) == [k \in DOMAIN attrs |-> IF k \in DOMAIN cfg THEN cfg[k] ELSE attrs[k]]

\* the host plans an Update only for a configuration that differs from the
\* state
Changed(cfg) == \E k \in DOMAIN cfg : cfg[k] # attrs[k]

\* what the host keeps of handler state r
Keep(r, hostId, cfg, q) ==
    /\ id' = hostId
    /\ attrs' = r.attrs
    /\ remote' = r.remote
    /\ created' = r.created
    /\ declared' = cfg
    /\ quiet' = q
    /\ UNCHANGED kind

\* the operation returned r; the host keeps identity hostId.  op records the
\* operation: its result, its remote calls, the identity the handler left
\* (hid) and found (was), the entities it created (made) and the external
\* identifier it was given (arg)
Finish(name, r, hostId, cfg, q) ==
    /\ Keep(r, hostId, cfg, q)
    /\ op' = [name |-> name, ret |-> r.ret, calls |-> r.calls, marks |-> r.marks,
              hid |-> r.id, was |-> id,
              made |-> r.created - created, arg |-> r.arg]
    /\ UNCHANGED <<pc, poll>>

\* inputs of an operation: the remote call that fails (0: none), the form of
\* the API's not-found error, whether a response comes back empty, what an
\* Import finds, the float32 representation error, whether the API answers
\* 1414, and the status the API gives a written entity
InputsOf(fs, empties, founds, datas, epss, busys, statuses) ==
    [f : fs, nf : NotFoundErrors(kind), empty : empties, found : founds, data : datas,
     eps : epss, busy : busys, status : statuses]

Inputs(fs, empties) ==
    InputsOf(fs, empties, {FALSE}, {CHOOSE v \in DataOf(kind) : TRUE}, {0}, {FALSE}, {"active"})

ImportInputs(fs) ==
    InputsOf(fs, {FALSE}, BOOLEAN, DataOf(kind), {0}, {FALSE}, {"active"})

CanCreate == pc = "idle" /\ id = EmptyStr /\ created < MaxCreated
CanUse == pc = "idle" /\ id # EmptyStr
CanImport == pc = "idle" /\ id = EmptyStr

DoCreate(cfg, r) == Finish("Create", r, r.id, cfg, r.ret = "ok")
DoRead(r) == Finish("Read", r, r.id, declared, quiet /\ r.ret = "ok")
DoUpdate(cfg, r) == Finish("Update", r, r.id, cfg, FALSE)
\* after a Delete that returned no error the host drops the instance
DoDelete(r) == Finish("Delete", r, IF r.ret = "ok" THEN EmptyStr ELSE r.id, declared, FALSE)
\* an Import that returned an error imports nothing
DoImport(r) == Finish("Import", r, IF r.ret = "ok" THEN r.id ELSE EmptyStr, declared, FALSE)

\* Import starts from an empty attribute bag whose identity is the external
\* identifier
BeginImport(ext) ==
    [Begin(ZeroAttrs(kind), ZeroAttrs(kind)) EXCEPT !.id = ext, !.arg = ext]

CreateWith(H(_, _), xs) ==
    /\ CanCreate
    /\ \E cfg \in Configs(kind), x \in xs : DoCreate(cfg, H(Begin(Fresh(cfg), ZeroAttrs(kind)), x))

ReadWith(H(_, _), xs) ==
    /\ CanUse
    /\ \E x \in xs : DoRead(H(Begin(attrs, attrs), x))

UpdateWith(H(_, _), xs) ==
    /\ CanUse
    /\ \E cfg \in Configs(kind), x \in xs :
          /\ Changed(cfg)
          /\ DoUpdate(cfg, H(Begin(Planned(cfg), attrs), x))

DeleteWith(H(_, _), xs) ==
    /\ CanUse
    /\ \E x \in xs : DoDelete(H(Begin(attrs, attrs), x))

ImportWith(H(_, _), xs) ==
    /\ CanImport
    /\ \E ext \in ExternalIds(kind), x \in xs : DoImport(H(BeginImport(ext), x))

---------------------------------------------------------------------------
(* resource.Retry(timeout, f): f is called until it returns nil or a       *)
(* non-retryable error, or until the timeout has elapsed.  An attempt      *)
(* takes between 1 and MaxAttemptTime units of time.                       *)

\* the marks of an attempt, counted from the calls made before it
Shifted(marks, n) == [i \in DOMAIN marks |-> [marks[i] EXCEPT !.at = @ + n]]

Retrying == [elapsed |-> 0, attempts |-> 0, last |-> "none"]

\* the handler reached resource.Retry with handler state r
StartRetry(name, r, cfg) ==
    /\ Keep(r, r.id, cfg, FALSE)
    /\ op' = [name |-> name, ret |-> "pending", calls |-> r.calls, marks |-> r.marks,
              hid |-> r.id, was |-> id,
              made |-> r.created - created, arg |-> r.arg]
    /\ pc' = "poll"
    /\ poll' = Retrying

\* a faulty Retry: it goes on for as long as the attempts are retryable
RetryWithoutTimeout(r, dur) ==
    LET t == poll.elapsed + dur
        again == r.ret = ErrRetryable
    IN  /\ Keep(r, r.id, declared, op.name = "Create" /\ r.ret = "ok")
        /\ op' = [op EXCEPT !.ret = IF again THEN "pending" ELSE r.ret,
                           !.calls = @ \o r.calls,
                           !.marks = @ \o Shifted(r.marks, Len(op.calls)), !.hid = r.id,
                           !.made = @ + r.created - created]
        /\ pc' = IF again THEN "poll" ELSE "idle"
        /\ poll' = [elapsed |-> t, attempts |-> poll.attempts + 1, last |-> r.ret]

\* one attempt returned r after dur units of time
Retry(r, dur) ==
    LET t == poll.elapsed + dur
        again == r.ret = ErrRetryable /\ t < PollTimeout
        ret == IF again THEN "pending"
               ELSE IF r.ret = ErrRetryable THEN ErrTimeout
               ELSE r.ret
    IN  /\ Keep(r, r.id, declared, op.name = "Create" /\ ret = "ok")
        /\ op' = [op EXCEPT !.ret = ret, !.calls = @ \o r.calls,
                           !.marks = @ \o Shifted(r.marks, Len(op.calls)), !.hid = r.id,
                           !.made = @ + r.created - created]
        /\ pc' = IF again THEN "poll" ELSE "idle"
        /\ poll' = [elapsed |-> t, attempts |-> poll.attempts + 1, last |-> r.ret]

RetryWith(name, H(_, _), xs) ==
    /\ pc = "poll" /\ op.name = name
    /\ \E x \in xs, dur \in 1..MaxAttemptTime : Retry(H(Begin(attrs, attrs), x), dur)

---------------------------------------------------------------------------
(* Actions: one per operation, with one disjunct per resource type naming  *)
(* the handler its schema.Resource registers for the operation.            *)

LoadBalancerPoolInputs ==
    InputsOf(0..2, BOOLEAN, {FALSE}, {CHOOSE v \in DataOf(kind) : TRUE}, Float32Errors, {FALSE},
             {"active"})

FallbackOriginInputs(fs) ==
    InputsOf(fs, {FALSE}, {FALSE}, DataOf(kind), {0}, BOOLEAN, FallbackOriginStatuses)

AOPCertificateInputs ==
    InputsOf(0..1, BOOLEAN, {FALSE}, {CHOOSE v \in DataOf(kind) : TRUE}, {0}, {FALSE},
             AOPCertificateStatuses)

\* Create of each resource type.  The fallback origin goes straight into
\* resource.Retry; the certificate uploads first, and goes into resource.Retry
\* unless the upload failed or no case of its switch was taken
Create ==
    \/ /\ kind = "filter"
       /\ CreateWith(resourceCloudflareFilterCreate, Inputs(0..2, BOOLEAN))
    \/ /\ kind = "load_balancer_pool"
       /\ CreateWith(resourceCloudflareLoadBalancerPoolCreate, LoadBalancerPoolInputs)
    \/ /\ kind = "magic_firewall_ruleset"
       /\ CreateWith(resourceCloudflareMagicFirewallRulesetCreate, Inputs(0..2, BOOLEAN))
    \/ /\ kind = "teams_list"
       /\ CreateWith(resourceCloudflareTeamsListCreate, Inputs(0..3, BOOLEAN))
    \/ /\ kind = "certificate_pack"
       /\ CreateWith(resourceCloudflareCertificatePackCreate, Inputs(0..2, BOOLEAN))
    \/ /\ kind = "byo_ip_prefix"
       /\ CreateWith(resourceCloudflareBYOIPPrefixCreate, Inputs(0..4, {FALSE}))
    \/ /\ kind = "waf_override"
       /\ CreateWith(resourceCloudflareWAFOverrideCreate, Inputs(0..2, BOOLEAN))
    \/ /\ kind = "access_keys_configuration"
       /\ CreateWith(resourceCloudflareAccessKeysConfigurationCreate, Inputs(0..2, {FALSE}))
    \/ /\ kind = "account_member"
       /\ CreateWith(resourceCloudflareAccountMemberCreate, Inputs(0..2, BOOLEAN))
    \/ /\ kind = "worker_cron_trigger"
       /\ CreateWith(resourceCloudflareWorkerCronTriggerUpdate, Inputs(0..1, {FALSE}))
    \/ /\ kind = "custom_pages"
       /\ CreateWith(resourceCloudflareCustomPagesUpdate, Inputs(0..2, {FALSE}))
    \/ /\ kind = "custom_hostname_fallback_origin"
       /\ CanCreate
       /\ \E cfg \in Configs(kind) : StartRetry("Create", Begin(Fresh(cfg), ZeroAttrs(kind)), cfg)
    \/ /\ kind = "authenticated_origin_pulls_certificate"
       /\ CanCreate
       /\ \E cfg \in Configs(kind), x \in AOPCertificateInputs :
             LET s == Begin(Fresh(cfg), ZeroAttrs(kind))
                 r == AOPCertificateUpload(s, x)
             IN  IF r.ret # "ok" \/ AOPCase(s) = EmptyStr THEN DoCreate(cfg, r)
                 ELSE StartRetry("Create", r, cfg)

\* Read of each resource type
Read ==
    \/ /\ kind = "filter"
       /\ ReadWith(resourceCloudflareFilterRead, Inputs(0..1, {FALSE}))
    \/ /\ kind = "load_balancer_pool"
       /\ ReadWith(resourceCloudflareLoadBalancerPoolRead, Inputs(0..1, {FALSE}))
    \/ /\ kind = "magic_firewall_ruleset"
       /\ ReadWith(resourceCloudflareMagicFirewallRulesetRead, Inputs(0..1, {FALSE}))
    \/ /\ kind = "teams_list"
       /\ ReadWith(resourceCloudflareTeamsListRead, Inputs(0..2, {FALSE}))
    \/ /\ kind = "certificate_pack"
       /\ ReadWith(resourceCloudflareCertificatePackRead, Inputs(0..1, {FALSE}))
    \/ /\ kind = "byo_ip_prefix"
       /\ ReadWith(resourceCloudflareBYOIPPrefixRead, Inputs(0..2, {FALSE}))
    \/ /\ kind = "waf_override"
       /\ ReadWith(resourceCloudflareWAFOverrideRead, Inputs(0..1, {FALSE}))
    \/ /\ kind = "access_keys_configuration"
       /\ ReadWith(resourceCloudflareAccessKeysConfigurationRead, Inputs(0..1, {FALSE}))
    \/ /\ kind = "account_member"
       /\ ReadWith(resourceCloudflareAccountMemberRead, Inputs(0..1, {FALSE}))
    \/ /\ kind = "worker_cron_trigger"
       /\ ReadWith(resourceCloudflareWorkerCronTriggerRead, Inputs(0..1, {FALSE}))
    \/ /\ kind = "custom_pages"
       /\ ReadWith(resourceCloudflareCustomPagesRead, Inputs(0..1, {FALSE}))
    \/ /\ kind = "custom_hostname_fallback_origin"
       /\ ReadWith(resourceCloudflareCustomHostnameFallbackOriginRead, Inputs(0..1, {FALSE}))
    \/ /\ kind = "authenticated_origin_pulls_certificate"
       /\ ReadWith(resourceCloudflareAuthenticatedOriginPullsCertificateRead, Inputs(0..1, {FALSE}))

\* Update of each resource type that has one; the fallback origin goes
\* straight into resource.Retry
Update ==
    \/ /\ kind = "filter"
       /\ UpdateWith(resourceCloudflareFilterUpdate, Inputs(0..2, BOOLEAN))
    \/ /\ kind = "load_balancer_pool"
       /\ UpdateWith(resourceCloudflareLoadBalancerPoolUpdate, LoadBalancerPoolInputs)
    \/ /\ kind = "magic_firewall_ruleset"
       /\ UpdateWith(resourceCloudflareMagicFirewallRulesetUpdate, Inputs(0..2, {FALSE}))
    \/ /\ kind = "teams_list"
       /\ UpdateWith(resourceCloudflareTeamsListUpdate, Inputs(0..4, BOOLEAN))
    \/ /\ kind = "byo_ip_prefix"
       /\ UpdateWith(resourceCloudflareBYOIPPrefixUpdate, Inputs(0..2, {FALSE}))
    \/ /\ kind = "waf_override"
       /\ UpdateWith(resourceCloudflareWAFOverrideUpdate, Inputs(0..2, {FALSE}))
    \/ /\ kind = "access_keys_configuration"
       /\ UpdateWith(resourceCloudflareAccessKeysConfigurationUpdate, Inputs(0..2, {FALSE}))
    \/ /\ kind = "account_member"
       /\ UpdateWith(resourceCloudflareAccountMemberUpdate, Inputs(0..4, {FALSE}))
    \/ /\ kind = "worker_cron_trigger"
       /\ UpdateWith(resourceCloudflareWorkerCronTriggerUpdate, Inputs(0..1, {FALSE}))
    \/ /\ kind = "custom_pages"
       /\ UpdateWith(resourceCloudflareCustomPagesUpdate, Inputs(0..2, {FALSE}))
    \/ /\ kind = "custom_hostname_fallback_origin"
       /\ CanUse
       /\ \E cfg \in Configs(kind) :
             /\ Changed(cfg)
             /\ StartRetry("Update", Begin(Planned(cfg), attrs), cfg)

\* Delete of each resource type
Delete ==
    \/ /\ kind = "filter"
       /\ DeleteWith(resourceCloudflareFilterDelete, Inputs(0..1, {FALSE}))
    \/ /\ kind = "load_balancer_pool"
       /\ DeleteWith(resourceCloudflareLoadBalancerPoolDelete, Inputs(0..1, {FALSE}))
    \/ /\ kind = "magic_firewall_ruleset"
       /\ DeleteWith(resourceCloudflareMagicFirewallRulesetDelete, Inputs(0..1, {FALSE}))
    \/ /\ kind = "teams_list"
       /\ DeleteWith(resourceCloudflareTeamsListDelete, Inputs(0..2, {FALSE}))
    \/ /\ kind = "certificate_pack"
       /\ DeleteWith(resourceCloudflareCertificatePackDelete, Inputs(0..2, {FALSE}))
    \/ /\ kind = "byo_ip_prefix"
       /\ DeleteWith(resourceCloudflareBYOIPPrefixDelete, Inputs(0..1, {FALSE}))
    \/ /\ kind = "waf_override"
       /\ DeleteWith(resourceCloudflareWAFOverrideDelete, Inputs(0..2, {FALSE}))
    \/ /\ kind = "access_keys_configuration"
       /\ DeleteWith(resourceCloudflareKeysConfigurationDelete, Inputs(0..1, {FALSE}))
    \/ /\ kind = "account_member"
       /\ DeleteWith(resourceCloudflareAccountMemberDelete, Inputs(0..1, {FALSE}))
    \/ /\ kind = "worker_cron_trigger"
       /\ DeleteWith(resourceCloudflareWorkerCronTriggerDelete, Inputs(0..1, {FALSE}))
    \/ /\ kind = "custom_pages"
       /\ DeleteWith(resourceCloudflareCustomPagesDelete, Inputs(0..2, {FALSE}))
    \/ /\ kind = "custom_hostname_fallback_origin"
       /\ DeleteWith(resourceCloudflareCustomHostnameFallbackOriginDelete, Inputs(0..1, {FALSE}))
    \/ /\ kind = "authenticated_origin_pulls_certificate"
       /\ DeleteWith(resourceCloudflareAuthenticatedOriginPullsCertificateDelete, Inputs(0..1, {FALSE}))

\* Import of each resource type that has an importer
Import ==
    \/ /\ kind = "filter"
       /\ ImportWith(resourceCloudflareFilterImport, ImportInputs(0..1))
    \/ /\ kind = "load_balancer_pool"
       /\ ImportWith(resourceCloudflareLoadBalancerPoolImport, ImportInputs(0..0))
    \/ /\ kind = "magic_firewall_ruleset"
       /\ ImportWith(resourceCloudflareMagicFirewallRulesetImport, ImportInputs(0..1))
    \/ /\ kind = "teams_list"
       /\ ImportWith(resourceCloudflareTeamsListImport, ImportInputs(0..2))
    \/ /\ kind = "certificate_pack"
       /\ ImportWith(resourceCloudflareCertificatePackImport, ImportInputs(0..1))
    \/ /\ kind = "byo_ip_prefix"
       /\ ImportWith(resourceCloudflareBYOIPPrefixImport, ImportInputs(0..2))
    \/ /\ kind = "waf_override"
       /\ ImportWith(resourceCloudflareWAFOverrideImport, ImportInputs(0..1))
    \/ /\ kind = "access_keys_configuration"
       /\ ImportWith(resourceCloudflareKeysConfigurationImport, ImportInputs(0..1))
    \/ /\ kind = "worker_cron_trigger"
       /\ ImportWith(resourceCloudflareWorkerCronTriggerImport, ImportInputs(0..1))
    \/ /\ kind = "custom_pages"
       /\ ImportWith(resourceCloudflareCustomPagesImport, ImportInputs(0..1))
    \/ /\ kind = "custom_hostname_fallback_origin"
       /\ ImportWith(resourceCloudflareCustomHostnameFallbackOriginImport, ImportInputs(0..0))
    \/ /\ kind = "authenticated_origin_pulls_certificate"
       /\ ImportWith(resourceCloudflareAuthenticatedOriginPullsCertificateImport, ImportInputs(0..1))

\* one attempt of a handler that is in resource.Retry
Attempt ==
    \/ /\ kind = "custom_hostname_fallback_origin"
       /\ RetryWith("Create", resourceCloudflareCustomHostnameFallbackOriginCreate,
                    FallbackOriginInputs(0..3))
    \/ /\ kind = "custom_hostname_fallback_origin"
       /\ RetryWith("Update", resourceCloudflareCustomHostnameFallbackOriginUpdate,
                    FallbackOriginInputs(0..2))
    \/ /\ kind = "authenticated_origin_pulls_certificate"
       /\ RetryWith("Create", resourceCloudflareAuthenticatedOriginPullsCertificateCreate,
                    Inputs(0..2, {FALSE}))

---------------------------------------------------------------------------
(* The environment *)

\* the remote entity is deleted out-of-band
EnvDelete ==
    /\ remote.exists
    /\ remote' = NoRemote
    /\ quiet' = FALSE
    /\ UNCHANGED <<kind, id, attrs, created, op, pc, poll, declared>>

\* the API finishes provisioning the entity
EnvProgress ==
    /\ kind \in {"custom_hostname_fallback_origin", "authenticated_origin_pulls_certificate"}
    /\ remote.exists
    /\ remote.data.status \in {"initializing", "pending_deployment"}
    /\ remote' = [remote EXCEPT !.data.status =
                     IF @ = "initializing" THEN "pending_deployment" ELSE "active"]
    /\ UNCHANGED <<kind, id, attrs, created, op, pc, poll, declared, quiet>>

Init ==
    /\ kind \in Kinds
    /\ id = EmptyStr
    /\ attrs = ZeroAttrs(kind)
    /\ remote \in InitialRemotes(kind)
    /\ created = 0
    /\ op = [name |-> "none", ret |-> "ok", calls |-> <<>>, marks |-> <<>>, hid |-> EmptyStr, was |-> EmptyStr,
             made |-> 0, arg |-> EmptyStr]
    /\ pc = "idle"
    /\ poll = Retrying
    /\ declared = ZeroAttrs(kind)
    /\ quiet = FALSE

Next ==
    \/ Create \/ Read \/ Update \/ Delete \/ Import \/ Attempt
    \/ EnvDelete \/ EnvProgress

Spec == Init /\ [][Next]_vars

\* resource.Retry runs inside the handler: while it polls, its next attempt
\* is eventually made
FairSpec == Spec /\ WF_vars(Attempt)

---------------------------------------------------------------------------
(* setListItemDiff on its own: the state holds a teams list whose items    *)
(* are attrs.items, the configuration declares declared.items, and the     *)
(* patch that Update builds for d.GetChange("items") is kept in op.arg.    *)

ItemValues == {"a", "b", "c", "d"}

\* the lists schema.Set.List() can give for a set: its elements in any order
Orders(set) ==
    {seq \in [1..Cardinality(set) -> set] : Range(seq) = set}

TeamsListWith(items) == [ZeroAttrs("teams_list") EXCEPT !.items = items]

DiffInit ==
    /\ kind = "teams_list"
    /\ id = ServerId(1)
    /\ attrs \in {TeamsListWith(items) : items \in SUBSET ItemValues}
    /\ declared \in {TeamsListWith(items) : items \in SUBSET ItemValues}
    /\ remote = [exists |-> TRUE, rid |-> id,
                 data |-> [name |-> "", type |-> "", description |-> "",
                           items |-> attrs.items]]
    /\ created = 0
    /\ op = [name |-> "none", ret |-> "ok", calls |-> <<>>, marks |-> <<>>, hid |-> EmptyStr, was |-> EmptyStr,
             made |-> 0, arg |-> EmptyStr]
    /\ pc = "idle"
    /\ poll = Retrying
    /\ quiet = FALSE

\* the patch of resourceCloudflareTeamsListUpdate
PatchItems ==
    /\ pc = "idle"
    /\ \E oldItems \in Orders(attrs.items), newItems \in Orders(declared.items) :
           op' = [op EXCEPT !.name = "setListItemDiff",
                            !.arg = setListItemDiff([ID |-> id, Append |-> {}, Remove |-> {}],
                                                    oldItems, newItems)]
    /\ pc' = "done"
    /\ UNCHANGED <<kind, id, attrs, remote, created, poll, declared, quiet>>

DiffNext == PatchItems

DiffSpec == DiffInit /\ [][DiffNext]_vars


---------------------------------------------------------------------------
(* Update of a teams list after items were added to the remote list out of *)
(* band: the state holds the list as the last Read left it, the remote     *)
(* list holds the added items as well, and the only operation is Update.   *)

\* the items added out of band since the last Read
AddedItems == SUBSET {"e", "f"}

AdditionInit ==
    /\ kind = "teams_list"
    /\ id = ServerId(1)
    /\ declared \in Configs(kind)
    /\ attrs = Fresh(declared)
    /\ remote \in {[exists |-> TRUE, rid |-> id,
                     data |-> [name |-> declared.name, type |-> declared.type,
                               description |-> declared.description,
                               items |-> declared.items \cup added]] : added \in AddedItems}
    /\ created = 0
    /\ op = [name |-> "none", ret |-> "ok", calls |-> <<>>, marks |-> <<>>, hid |-> EmptyStr,
             was |-> EmptyStr, made |-> 0, arg |-> EmptyStr]
    /\ pc = "idle"
    /\ poll = Retrying
    /\ quiet = FALSE

\* Update of the teams list
UpdateTeamsList ==
    /\ kind = "teams_list"
    /\ UpdateWith(resourceCloudflareTeamsListUpdate, Inputs(0..4, BOOLEAN))

AdditionNext == UpdateTeamsList

AdditionSpec == AdditionInit /\ [][AdditionNext]_vars

---------------------------------------------------------------------------
(* Read on its own: the state holds an instance with its declared values,  *)
(* as Create leaves it to its Read, and a remote entity that was modified  *)
(* out of band; the only operation is Read.                                *)

\* what the remote entity can hold after an out-of-band modification
DriftData(k) ==
    CASE k = "worker_cron_trigger" ->
            [schedules : {<<>>, <<[cron |-> "0 0 * * *"]>>}]
      [] k = "custom_pages" ->
            [state : {"default", "customized"}, url : {"", "https://example.com/found"}]
      [] k = "custom_hostname_fallback_origin" ->
            [origin : {<<"found.example.com">>}, status : {"pending_deployment", "active"}]
      [] OTHER -> DataOf(k)

\* the identifier under which the API holds the entity of the instance
DriftRid(k) ==
    CASE k = "byo_ip_prefix" -> Prefix
      [] k \in {"access_keys_configuration", "custom_hostname_fallback_origin"} -> Zone
      [] k = "worker_cron_trigger" -> Script
      [] k = "custom_pages" -> PageType
      [] OTHER -> ServerId(1)

\* the identity of the instance
DriftId(k, a) ==
    CASE k = "worker_cron_trigger" -> stringChecksum(Script)
      [] k = "custom_pages" ->
            stringChecksum((IF a.account_id # EmptyStr THEN a.account_id ELSE a.zone_id)
                           \o <<"/">> \o PageType)
      [] k = "custom_hostname_fallback_origin" -> FallbackOriginId(Zone)
      [] OTHER -> DriftRid(k)

DriftInit ==
    /\ kind \in Kinds
    /\ declared \in Configs(kind)
    /\ attrs = Fresh(declared)
    /\ id = DriftId(kind, declared)
    /\ remote \in {[exists |-> TRUE, rid |-> DriftRid(kind), data |-> data] :
                      data \in DriftData(kind)}
    /\ created = 0
    /\ op = [name |-> "none", ret |-> "ok", calls |-> <<>>, marks |-> <<>>, hid |-> EmptyStr,
             was |-> EmptyStr, made |-> 0, arg |-> EmptyStr]
    /\ pc = "idle"
    /\ poll = Retrying
    /\ quiet = FALSE

DriftNext == Read

DriftSpec == DriftInit /\ [][DriftNext]_vars
---------------------------------------------------------------------------
(* Two instances of one resource type: the operations of this instance are *)
(* run against an API that holds the entity of the other instance, which   *)
(* is the entity in remote.  The other instance is at rest.  A creation    *)
(* call of this instance adds an entity of its own, which remote holds     *)
(* from then on (created counts it).                                       *)

\* an address no configuration of this instance names
OtherRid == <<"elsewhere">>

\* the resource types whose entity is addressed by configured attributes
\* instead of a server-issued identifier
AddressedByConfig == {k \in Kinds : DriftRid(k) # ServerId(1)}

\* the addresses the entity of the other instance can have: another one, or
\* the one this instance addresses (both were configured alike, or imported
\* from the same external identifier)
ForeignRids(k, exists) ==
    IF exists \/ k \in AddressedByConfig THEN {OtherRid, DriftRid(k)} ELSE {OtherRid}

ForeignInit ==
    /\ kind \in Kinds
    /\ \E exists \in BOOLEAN, cfg \in Configs(kind) :
          /\ declared = IF exists THEN cfg ELSE ZeroAttrs(kind)
          /\ attrs = IF exists THEN Fresh(cfg) ELSE ZeroAttrs(kind)
          /\ id = IF exists THEN DriftId(kind, cfg) ELSE EmptyStr
          /\ remote \in {[exists |-> TRUE, rid |-> rid, data |-> data] :
                            rid \in ForeignRids(kind, exists), data \in DriftData(kind)}
    /\ created = 0
    /\ op = [name |-> "none", ret |-> "ok", calls |-> <<>>, marks |-> <<>>, hid |-> EmptyStr,
             was |-> EmptyStr, made |-> 0, arg |-> EmptyStr]
    /\ pc = "idle"
    /\ poll = Retrying
    /\ quiet = FALSE

ForeignNext == Create \/ Read \/ Update \/ Delete \/ Attempt

ForeignSpec == ForeignInit /\ [][ForeignNext]_vars
---------------------------------------------------------------------------
(* The conversions of magic firewall rules on their own: the configuration *)
(* declares declared.rules, the API holds remote.data.rules; the rules     *)
(* built for the API are kept in op.arg and the rules built for the state  *)
(* in attrs.rules.                                                         *)

MaxRules == 2

\* the declared rules the validators of ruleElemValidators admit, with a
\* description, with an empty one, and without
RuleValues ==
    LET plain == [expression : {"ip.len eq 1"}, enabled : {"true", "false"},
                  action : {"allow", "block"}]
    IN  plain \cup {r @@ [description |-> d] : r \in plain, d \in {"", "edge"}}

\* the rules the API can hold
APIRuleValues ==
    [Expression : {"ip.len eq 1"}, Description : {"", "edge"}, Enabled : BOOLEAN,
     Action : {"skip", "block", "log"}, ActionParameters : {"nil"}]

ListsOf(values, n) == UNION {[1..m -> values] : m \in 0..n}

MagicFirewallRulesetWith(rules) == [ZeroAttrs("magic_firewall_ruleset") EXCEPT !.rules = rules]

RulesInit ==
    /\ kind = "magic_firewall_ruleset"
    /\ id = ServerId(1)
    /\ attrs = ZeroAttrs(kind)
    /\ declared \in {MagicFirewallRulesetWith(rules) : rules \in ListsOf(RuleValues, MaxRules)}
    /\ remote \in {[exists |-> TRUE, rid |-> id,
                     data |-> [name |-> "", description |-> "", rules |-> rules]] :
                       rules \in ListsOf(APIRuleValues, 1)}
    /\ created = 0
    /\ op = [name |-> "none", ret |-> "ok", calls |-> <<>>, marks |-> <<>>, hid |-> EmptyStr,
             was |-> EmptyStr, made |-> 0, arg |-> EmptyStr]
    /\ pc = "idle"
    /\ poll = Retrying
    /\ quiet = FALSE

\* the rules Create and Update build from d.Get("rules")
BuildRules ==
    /\ pc = "idle"
    /\ op' = [op EXCEPT !.name = "buildMagicFirewallRulesetRulesFromResource",
                        !.arg = buildMagicFirewallRulesetRulesFromResource(declared.rules)]
    /\ pc' = "built"
    /\ UNCHANGED <<kind, id, attrs, remote, created, poll, declared, quiet>>

\* the API holds the rules it was sent, and Read builds the state from them
BuildStateOfBuilt ==
    /\ pc = "built"
    /\ attrs' = [attrs EXCEPT !.rules = buildStateFromMagicFirewallRulesetRules(op.arg)]
    /\ pc' = "read back"
    /\ UNCHANGED <<kind, id, remote, created, op, poll, declared, quiet>>

\* Read builds the state from the rules the API holds
BuildStateOfRemote ==
    /\ pc = "idle"
    /\ op' = [op EXCEPT !.name = "buildStateFromMagicFirewallRulesetRules"]
    /\ attrs' = [attrs EXCEPT !.rules = buildStateFromMagicFirewallRulesetRules(remote.data.rules)]
    /\ pc' = "read"
    /\ UNCHANGED <<kind, id, remote, created, poll, declared, quiet>>

RulesNext == BuildRules \/ BuildStateOfBuilt \/ BuildStateOfRemote

RulesSpec == RulesInit /\ [][RulesNext]_vars

---------------------------------------------------------------------------
(* The certificate of authenticated origin pulls under every value of its  *)
(* type attribute: the two families of endpoints, and a value that names   *)
(* neither.                                                                *)

OtherType == <<"per-host">>

TypedConfigs ==
    [zone_id : {Zone}, type : {PerZone, PerHostname, OtherType}, certificate : {"-----BEGIN"}]

TypedInit ==
    /\ kind = "authenticated_origin_pulls_certificate"
    /\ id = EmptyStr
    /\ attrs = ZeroAttrs(kind)
    /\ remote \in InitialRemotes(kind)
    /\ created = 0
    /\ op = [name |-> "none", ret |-> "ok", calls |-> <<>>, marks |-> <<>>, hid |-> EmptyStr,
             was |-> EmptyStr, made |-> 0, arg |-> EmptyStr]
    /\ pc = "idle"
    /\ poll = Retrying
    /\ declared = ZeroAttrs(kind)
    /\ quiet = FALSE

\* Create: the upload, then resource.Retry unless the upload failed or no
\* case of the switch was taken
CreateCertificate ==
    /\ CanCreate
    /\ \E cfg \in TypedConfigs, x \in AOPCertificateInputs :
          LET s == Begin(Fresh(cfg), ZeroAttrs(kind))
              r == AOPCertificateUpload(s, x)
          IN  IF r.ret # "ok" \/ AOPCase(s) = EmptyStr THEN DoCreate(cfg, r)
              ELSE StartRetry("Create", r, cfg)

AttemptCertificate ==
    RetryWith("Create", resourceCloudflareAuthenticatedOriginPullsCertificateCreate,
              Inputs(0..2, {FALSE}))

ReadCertificate ==
    ReadWith(resourceCloudflareAuthenticatedOriginPullsCertificateRead, Inputs(0..1, {FALSE}))

DeleteCertificate ==
    DeleteWith(resourceCloudflareAuthenticatedOriginPullsCertificateDelete, Inputs(0..1, {FALSE}))

ImportCertificate ==
    ImportWith(resourceCloudflareAuthenticatedOriginPullsCertificateImport, ImportInputs(0..1))

TypedNext ==
    \/ CreateCertificate \/ AttemptCertificate \/ ReadCertificate \/ DeleteCertificate
    \/ ImportCertificate \/ EnvProgress

TypedSpec == TypedInit /\ [][TypedNext]_vars

---------------------------------------------------------------------------
(* Properties *)

\* an operation has returned to the host
Returned == pc = "idle" /\ op.name # "none"

\* one of the operation's remote calls reported that the entity is missing
ReportedMissing == \E i \in DOMAIN op.calls : op.calls[i].res \in NotFoundErrors(kind)

\* C1: for every resource type, a Read whose remote fetch reports that the
\* entity does not exist leaves the identity empty and returns no error.
C1_ReadClearsMissing ==
    (Returned /\ op.name = "Read" /\ ReportedMissing)
        => (op.hid = EmptyStr /\ op.ret = "ok")

\* the remote entity of the instance is in place: it exists, and for a
\* resource type that configures a standing entity it is configured
InPlace ==
    /\ remote.exists
    /\ kind = "custom_pages" => remote.data.state # "default"
    /\ kind = "worker_cron_trigger" => remote.data.schedules # <<>>

\* the operation's most recent remote interaction reported the entity missing
LastReportedMissing ==
    /\ op.calls # <<>>
    /\ op.calls[Len(op.calls)].res \in NotFoundErrors(kind)

EmptiedInPlace ==
    Returned /\ op.was # EmptyStr /\ op.hid = EmptyStr /\ op.calls # <<>> /\ InPlace

KeptMissing ==
    Returned /\ op.ret = "ok" /\ op.hid # EmptyStr /\ LastReportedMissing

\* C2: whenever an operation has returned, the identity is non-empty exactly
\* when the most recent remote interaction indicated that the entity exists.
\* Stated here are the two consequences the claim names: an operation on a
\* tracked instance never returns with an empty identity while having left
\* the remote entity in place, and no operation returns success with a
\* non-empty identity when its last remote interaction reported the entity
\* missing.
C2_IdentityTracksRemote == ~EmptiedInPlace /\ ~KeptMissing


\* a Read found the entity missing: its last fetch reported it missing, or
\* (custom pages) fetched a page in its default state
ReadFoundMissing ==
    \/ LastReportedMissing
    \/ kind = "custom_pages" /\ op.calls # <<>> /\ op.calls[Len(op.calls)].res = "ok"

\* C3 (as claimed): the instance goes from absent to present only by a
\* successful Create, and from present to absent only by a Read that detects
\* the entity missing or by a Delete; no other operation outcome changes
\* absent/present.
C3_OnlyListedTransitions ==
    Returned =>
        /\ (op.was = EmptyStr /\ id # EmptyStr) => (op.name = "Create" /\ op.ret = "ok")
        /\ (op.was # EmptyStr /\ id = EmptyStr) =>
               \/ op.name = "Read" /\ ReadFoundMissing
               \/ op.name = "Delete" /\ op.ret = "ok"

\* C3 (amended): the instance goes from absent to present only by a Create
\* that set the identity, whether or not it then returned an error, or by a
\* successful Import; and from present to absent only by a successful Read
\* that found the entity missing or by a successful Delete.  A failed Read,
\* Update or Delete and a failed Import leave absent/present as it was.
C3_Transitions ==
    Returned =>
        /\ (op.was = EmptyStr /\ id # EmptyStr) =>
               \/ op.name = "Create"
               \/ op.name = "Import" /\ op.ret = "ok"
        /\ (op.was # EmptyStr /\ id = EmptyStr) =>
               \/ op.name = "Read" /\ op.ret = "ok" /\ ReadFoundMissing
               \/ op.name = "Delete" /\ op.ret = "ok"
        /\ (op.ret # "ok" /\ op.name # "Create") => ((op.was = EmptyStr) <=> (id = EmptyStr))

\* a failed Create has left the instance present
C3_FailedCreatePresent ==
    Returned /\ op.name = "Create" /\ op.ret # "ok" /\ op.was = EmptyStr /\ id # EmptyStr

\* the remote calls that make a new entity
CreationAPIs ==
    {"CreateFilters", "CreateLoadBalancerPool", "CreateMagicFirewallRuleset", "CreateTeamsList",
     "CreateCertificatePack", "CreateAdvancedCertificatePack", "CreateWAFOverride",
     "CreateAccountMember", AOPUploadAPI(PerZone), AOPUploadAPI(PerHostname),
     "UpdateCustomHostnameFallbackOrigin"}

\* the resource types whose Create adopts or configures an entity that is
\* provisioned out of band
AdoptingKinds ==
    {"byo_ip_prefix", "access_keys_configuration", "worker_cron_trigger", "custom_pages"}

\* the resource types whose Create makes one creation call
CreatingKinds == Kinds \ (AdoptingKinds \cup {"custom_hostname_fallback_origin"})

\* the creation calls of the operation that succeeded
CreationCalls ==
    Cardinality({i \in DOMAIN op.calls :
                    op.calls[i].api \in CreationAPIs /\ op.calls[i].res = "ok"})

EchoedAttrs(k) ==
    CASE k = "filter" -> {"paused", "description", "expression", "ref"}
      [] k = "load_balancer_pool" ->
            {"name", "enabled", "description", "latitude", "check_regions"}
      [] k = "magic_firewall_ruleset" -> {"name", "description", "rules"}
      [] k = "teams_list" -> {"name", "type", "description", "items"}
      [] k = "certificate_pack" -> {"type", "hosts"}
      [] k = "byo_ip_prefix" -> {"description", "advertisement"}
      [] k = "waf_override" -> {"urls", "paused", "description", "rules"}
      [] k = "access_keys_configuration" -> {"key_rotation_interval_days"}
      [] k = "worker_cron_trigger" -> {"schedules"}
      [] k = "custom_pages" -> {"url", "type"}
      [] k = "custom_hostname_fallback_origin" -> {"origin"}
      [] OTHER -> {}

\* a Read has succeeded after a successful Create, with no other operation
\* and no out-of-band change in between
ReadAfterCreate == Returned /\ op.name = "Read" /\ op.ret = "ok" /\ quiet /\ id # EmptyStr

StoreMarks == {i \in DOMAIN op.marks : op.marks[i].what = "SetId"}

ReadMarks == {i \in DOMAIN op.marks : op.marks[i].what = "Read"}

---------------------------------------------------------------------------
(* Import of the resource types whose external identifier is "scope/id" *)

TwoSegmentKinds ==
    {"filter", "certificate_pack", "magic_firewall_ruleset", "teams_list", "waf_override"}

\* the attribute that holds the scope of a two-segment resource type
ScopeAttr(k) ==
    IF k \in {"magic_firewall_ruleset", "teams_list"} THEN "account_id" ELSE "zone_id"

\* all the segments of an external identifier
AllSegments(ext) == SplitN(ext, Len(ext) + 1)

ImportReturned == Returned /\ op.name = "Import" /\ kind \in TwoSegmentKinds

\* C6: Import of a two-segment resource with external identifier "S/R" of an
\* entity that exists sets the scope attribute to S and the identity to R;
\* an external identifier of one segment or of three segments fails with a
\* format error and sets no attribute.
C6_ImportTwoSegments ==
    ImportReturned =>
        LET segs == AllSegments(op.arg)
        IN  /\ (Len(segs) = 2 /\ remote.exists) =>
                   /\ op.ret = "ok"
                   /\ attrs[ScopeAttr(kind)] = segs[1]
                   /\ op.hid = segs[2]
            /\ Len(segs) \in {1, 3} =>
                   /\ op.ret = ErrInvalidId
                   /\ attrs = ZeroAttrs(kind)

---------------------------------------------------------------------------
(* Import of the resource types whose external identifier has three segments *)

ThreeSegmentKinds == {"authenticated_origin_pulls_certificate", "custom_pages"}

\* the attributes and the identity an Import takes from three segments
TakenFromSegments(segs) ==
    IF kind = "custom_pages"
    THEN /\ attrs.type = segs[3]
         /\ attrs[IF segs[1] = <<"account">> THEN "account_id" ELSE "zone_id"] = segs[2]
         /\ op.hid \in {EmptyStr, stringChecksum(segs[2] \o <<"/">> \o segs[3])}
    ELSE /\ attrs.zone_id = segs[1]
         /\ attrs.type = segs[2]
         /\ op.hid \in {EmptyStr, segs[3]}

\* C15: Import of a three-segment resource with an external identifier that
\* has not exactly three segments fails with a format error, makes no remote
\* call and sets no attribute and no identity; with exactly three segments it
\* returns success with the attributes and the identity taken from the
\* segments (the identity possibly cleared by the Read that follows).
C15_ImportThreeSegments ==
    (Returned /\ op.name = "Import" /\ kind \in ThreeSegmentKinds) =>
        LET segs == AllSegments(op.arg)
        IN  /\ Len(segs) # 3 =>
                   /\ op.ret = ErrInvalidId
                   /\ op.calls = <<>>
                   /\ attrs = ZeroAttrs(kind)
                   /\ StoreMarks = {}
            /\ Len(segs) = 3 =>
                   /\ op.ret = "ok"
                   /\ StoreMarks # {}
                   /\ TakenFromSegments(segs)

---------------------------------------------------------------------------
(* The patch of a teams list (under DiffSpec) *)

Patched == op.name = "setListItemDiff"

\* C7: for any old item set O (attrs.items) and new item set N
\* (declared.items) the patch built by setListItemDiff has Append equal to
\* exactly N minus O and Remove equal to exactly O minus N, and no item in
\* both O and N appears in Append or in Remove.
C7_PatchIsSetDifference ==
    Patched =>
        /\ op.arg.Append = declared.items \ attrs.items
        /\ op.arg.Remove = attrs.items \ declared.items
        /\ (attrs.items \cap declared.items) \cap (op.arg.Append \cup op.arg.Remove) = {}

\* old {a,b,c} and new {b,c,d} have given Append {d} and Remove {a}
C7_AppendDRemoveA ==
    /\ Patched
    /\ attrs.items = {"a", "b", "c"}
    /\ declared.items = {"b", "c", "d"}
    /\ op.arg.Append = {"d"}
    /\ op.arg.Remove = {"a"}

---------------------------------------------------------------------------
(* Delete of the resource types that cannot be deleted remotely *)

NoOpDeleteKinds == {"access_keys_configuration", "byo_ip_prefix"}

\* C8: Delete on a no-op-delete resource (access keys configuration, BYOIP
\* prefix) returns success in every state and for every input, makes no
\* remote call, and leaves the remote entity and the local attributes
\* unchanged.
C8_DeleteIsNoOp ==
    [][(Delete /\ kind \in NoOpDeleteKinds) =>
           /\ op'.name = "Delete"
           /\ op'.ret = "ok"
           /\ op'.calls = <<>>
           /\ remote' = remote
           /\ attrs' = attrs]_vars

\* a Delete of an adopted BYOIP prefix has returned: the prefix is still
\* there with the description that was declared for it
C8_PrefixSurvivesDelete ==
    /\ Returned /\ op.name = "Delete" /\ op.ret = "ok"
    /\ kind = "byo_ip_prefix"
    /\ remote.exists /\ remote.data.description = "office"
    /\ attrs.description = "office"

---------------------------------------------------------------------------
(* The polling loops (resource.Retry) *)

TimedOut == Returned /\ op.ret = ErrTimeout

\* C9 (as claimed): a bounded-poll Create that times out has made exactly the
\* configured number of retry attempts (the number that fits in the timeout
\* window at one attempt per unit of time).
C9_ExactAttempts ==
    (TimedOut /\ op.name = "Create") => poll.attempts = PollTimeout

\* C9 (amended): a polling loop terminates; it polls only while the timeout
\* has not elapsed, and when it times out the timeout has elapsed, its last
\* attempt was still not ready and it has made at least one attempt and at
\* most one per unit of time of the window.
C9_PollTerminates ==
    /\ [](pc = "poll" => poll.elapsed < PollTimeout /\ poll.attempts <= poll.elapsed)
    /\ [](TimedOut => /\ poll.elapsed >= PollTimeout
                      /\ poll.last = ErrRetryable
                      /\ poll.attempts >= 1
                      /\ poll.attempts <= PollTimeout)
    /\ (pc = "poll" ~> pc = "idle")

\* a Create has timed out on an entity that is not ready, after fewer
\* attempts than units of time in the window
C9_TimedOutEarly ==
    /\ TimedOut /\ op.name = "Create"
    /\ remote.exists /\ remote.data.status # "active"
    /\ poll.attempts < PollTimeout

\* the remote calls of the attempt of this step, and the result of the last
AttemptCalls == SubSeq(op'.calls, Len(op.calls) + 1, Len(op'.calls))
LastResult == AttemptCalls[Len(AttemptCalls)].res

\* the calls of an attempt whose error the loop checks: the write and the
\* fetch of a fallback origin Create, the write of its Update, the fetch of
\* the certificate Create
CheckedCalls ==
    IF kind = "custom_hostname_fallback_origin" /\ op.name = "Create"
    THEN {i \in {1, 2} : i <= Len(AttemptCalls)}
    ELSE {1}

\* the attempt fetched a status that is not yet the ready value
FetchedNotReady ==
    /\ \A i \in CheckedCalls : AttemptCalls[i].res = "ok"
    /\ \/ /\ kind = "custom_hostname_fallback_origin" /\ op.name = "Create"
          /\ remote'.data.status \notin {"pending_deployment", "active"}
       \/ /\ kind = "authenticated_origin_pulls_certificate"
          /\ remote'.data.status # "active"

\* C10: in every polling loop of Create and Update an attempt that ends in a
\* transient not-ready condition (error code 1414, or a fetched status that
\* is not yet ready) is followed by another attempt as long as the timeout
\* has not elapsed; an attempt that ends in any other remote error ends the
\* loop at once: the operation returns that error, which is the result of
\* the last remote call it made.
C10_RetryOnlyTransient ==
    [][Attempt =>
          /\ (LastResult = E1414 \/ FetchedNotReady) =>
                 /\ poll'.last = ErrRetryable
                 /\ poll'.elapsed < PollTimeout => (pc' = "poll" /\ op'.ret = "pending")
          /\ \A i \in CheckedCalls :
                 AttemptCalls[i].res \notin {"ok", E1414} =>
                     /\ i = Len(AttemptCalls)
                     /\ poll'.last = AttemptCalls[i].res
          /\ poll'.last \notin {"ok", ErrRetryable} =>
                 /\ pc' = "idle"
                 /\ op'.ret = poll'.last
                 /\ LastResult = poll'.last]_vars

\* a polling loop went on after a first attempt that was not ready, and
\* ended at its second attempt, before the timeout, on an error that is not
\* transient
C10_EndedOnError ==
    /\ Returned /\ op.ret = E500
    /\ poll.attempts = 2 /\ poll.last = E500 /\ poll.elapsed < PollTimeout

\* C14: an attempt of the fallback origin's Update sends the update of the
\* declared origin; when the API answers 1414 the Update does not fail: it
\* changes nothing, and attempts the same update again unless the timeout has
\* elapsed, in which case it returns the timeout error; when the API accepts
\* the update the Update returns success, whatever the attempts before it
\* answered; any other error ends the Update with that error.
C14_UpdateRetriesOn1414 ==
    [][(Attempt /\ kind = "custom_hostname_fallback_origin" /\ op.name = "Update") =>
          /\ AttemptCalls[1].api = "UpdateCustomHostnameFallbackOrigin"
          /\ AttemptCalls[1].res = E1414 =>
                 /\ Len(AttemptCalls) = 1
                 /\ attrs' = attrs /\ id' = id /\ remote' = remote
                 /\ IF poll'.elapsed < PollTimeout
                    THEN pc' = "poll" /\ op'.ret = "pending"
                    ELSE pc' = "idle" /\ op'.ret = ErrTimeout
          /\ AttemptCalls[1].res = "ok" =>
                 /\ pc' = "idle" /\ op'.ret = "ok"
                 /\ remote'.exists /\ remote'.data.origin = attrs.origin
          /\ AttemptCalls[1].res \notin {"ok", E1414} =>
                 /\ pc' = "idle" /\ op'.ret = AttemptCalls[1].res]_vars

\* an Update of the fallback origin returned success at its second attempt,
\* after the API had answered 1414 to the first
C14_UpdatedAfter1414 ==
    /\ kind = "custom_hostname_fallback_origin"
    /\ Returned /\ op.name = "Update" /\ op.ret = "ok"
    /\ poll.attempts = 2
    /\ op.calls[1] = [api |-> "UpdateCustomHostnameFallbackOrigin", res |-> E1414]
    /\ op.calls[2] = [api |-> "UpdateCustomHostnameFallbackOrigin", res |-> "ok"]

---------------------------------------------------------------------------
(* Propagation of the errors of remote calls *)

\* a remote call of the operation failed with an error that is neither a
\* not-found result nor the transient code 1414 of a polling loop
FailedCalls ==
    {i \in DOMAIN op.calls : op.calls[i].res \notin ({"ok", E1414} \cup NotFoundErrors(kind))}

\* C11: no operation (Create, Read, Update, Delete, Import) returns success
\* after one of its remote calls, or of the Read it delegates to, failed with
\* an error other than a not-found result.
C11_ErrorsPropagate ==
    (Returned /\ op.ret = "ok") => FailedCalls = {}


\* the remote calls by which a Create makes or configures its entity: the
\* creation calls, and the update calls of the shared create-or-update functions
CreateCallAPIs ==
    CreationAPIs \cup {"UpdateWorkerCronTriggers", "UpdateCustomPage"}

\* the store at position i of the marks came after a creation call succeeded,
\* where the resource type makes one at all
StoredAfterCreation(i) ==
    \/ \E c \in 1..op.marks[i].at :
          op.calls[c].api \in CreateCallAPIs /\ op.calls[c].res = "ok"
    \/ \A c \in DOMAIN op.calls : op.calls[c].api \notin CreateCallAPIs

\* C12: a Create that returns success has invoked Read exactly once, and has
\* stored the identity after the creation call succeeded and before that Read.
C12_CreateStoresThenReads ==
    (Returned /\ op.name = "Create" /\ op.ret = "ok") =>
        /\ Cardinality(ReadMarks) = 1
        /\ \E i \in StoreMarks : StoredAfterCreation(i) /\ \A j \in ReadMarks : i < j

\* the remote calls by which an Update changes its entity
UpdateAPIs ==
    {"UpdateFilter", "ModifyLoadBalancerPool", "UpdateMagicFirewallRuleset", "UpdateTeamsList",
     "PatchTeamsList", "UpdatePrefixDescription", "UpdateAdvertisementStatus",
     "UpdateWAFOverride", "UpdateAccessKeysConfig", "UpdateAccountMember",
     "UpdateWorkerCronTriggers", "UpdateCustomPage", "UpdateCustomHostnameFallbackOrigin"}

\* C13: an Update that returns success has invoked Read after its last remote
\* update call and before it returned.
C13_UpdateEndsWithRead ==
    (Returned /\ op.name = "Update" /\ op.ret = "ok") =>
        \E j \in ReadMarks :
            \A c \in DOMAIN op.calls : op.calls[c].api \in UpdateAPIs => c <= op.marks[j].at

---------------------------------------------------------------------------
(* The order of the steps of Import *)

\* the resource types whose Import is a function of the provider (the pool
\* is imported by the SDK's pass-through importer, the account member has no
\* importer)
ImportingKinds == Kinds \ {"load_balancer_pool", "account_member"}

\* the Import had the identity in place before position j of its marks: it
\* stored one, or it kept the external identifier as the identity
IdentityBefore(j) ==
    \/ \E i \in StoreMarks : i < j
    \/ StoreMarks = {} /\ op.hid \in {EmptyStr, op.arg}

\* C16: an Import that was given a well-formed external identifier has
\* invoked Read exactly once, with the identity in place, and Read found the
\* attribute it addresses the remote entity with (for the cron trigger, the
\* script name taken from the identifier).
C16_ImportSetsThenReads ==
    (Returned /\ op.name = "Import" /\ kind \in ImportingKinds /\ op.ret # ErrInvalidId) =>
        /\ Cardinality(ReadMarks) = 1
        /\ \A j \in ReadMarks : IdentityBefore(j)
        /\ kind = "worker_cron_trigger" => attrs.script_name = op.arg

---------------------------------------------------------------------------
(* The attributes an Update sends *)

\* the requests of the operation that finished: the attributes each was
\* built from, and those of them whose declared value differed from the state
Requests == {i \in DOMAIN op.marks : op.marks[i].what = "Send"}

\* an Update that ran as one step returned (the fallback origin, whose one
\* updatable attribute is sent by every attempt of its polling loop, is left
\* out: the attempts after the first see no change)
Updated == Returned /\ op.name = "Update" /\ kind # "custom_hostname_fallback_origin"

\* the attributes the handlers send under a test of d.HasChange
ChangeGuarded ==
    CASE kind = "byo_ip_prefix" -> {"description", "advertisement"}
      [] kind = "teams_list" -> {"items"}
      [] OTHER -> {}

\* C17 (as claimed): the requests of an Update carry only attributes whose
\* declared value changed; an Update that sends a request has a changed
\* attribute to send.
C17_OnlyChangedSent ==
    Updated => \A i \in Requests : op.marks[i].keys = op.marks[i].changed

\* C17 (amended): the attributes a handler sends under a change test (the
\* description and the advertisement of a BYOIP prefix, the items of a teams
\* list) are sent only when their declared value changed, each in a request
\* of its own; every other update request is built from the current values
\* of its attributes, changed or not.
C17_GuardedSentOnlyIfChanged ==
    Updated =>
        \A i \in Requests :
            \A k \in op.marks[i].keys \cap ChangeGuarded :
                k \in op.marks[i].changed /\ op.marks[i].keys = {k}

\* an Update of a BYOIP prefix with a description declared and unchanged has
\* sent the advertisement alone
C17_AdvertisementAlone ==
    /\ kind = "byo_ip_prefix"
    /\ Updated /\ op.ret = "ok"
    /\ declared.description # ""
    /\ Requests # {}
    /\ \A i \in Requests : op.marks[i].keys = {"advertisement"}

---------------------------------------------------------------------------
(* Read against a remote entity modified out of band (under DriftSpec) *)

\* the locally tracked attributes that the remote entity carries
SyncedAttrs == DOMAIN attrs \cap DOMAIN remote.data

\* the value of the remote entity's field k in the representation of the
\* local attribute; nil and the empty list are the attribute's zero value
AsLocal(k) ==
    CASE kind = "load_balancer_pool" /\ k = "latitude" ->
            IF remote.data.latitude.nil THEN 0 ELSE Round4(remote.data.latitude.v)
      [] kind = "certificate_pack" /\ k = "hosts" -> Range(remote.data.hosts)
      [] kind = "certificate_pack" /\ k = "validation_errors" ->
            IF remote.data.validation_errors.nil THEN <<>>
            ELSE [i \in 1..Len(remote.data.validation_errors.v) |->
                     [message |-> remote.data.validation_errors.v[i]]]
      [] kind = "magic_firewall_ruleset" /\ k = "rules" ->
            buildStateFromMagicFirewallRulesetRules(remote.data.rules)
      [] kind = "worker_cron_trigger" /\ k = "schedules" ->
            transformWorkerCronTriggerStructToSet(remote.data.schedules)
      [] OTHER -> remote.data[k]

\* a Read has returned after its fetch found the remote entity
ReadFound == Returned /\ op.name = "Read" /\ op.ret = "ok" /\ id # EmptyStr /\ remote.exists

\* C18: after a Read whose fetch found the remote entity, every locally
\* tracked attribute that the remote entity carries equals the remote value,
\* whatever it was before; an empty remote value replaces a non-empty local
\* one.
C18_ReadTakesRemote ==
    ReadFound => \A k \in SyncedAttrs : attrs[k] = AsLocal(k)

---------------------------------------------------------------------------
(* Read of an entity that is gone *)

\* the Read of this step detected that the remote entity does not exist: it
\* returned success with the identity cleared
DetectsMissing == op'.ret = "ok" /\ id' = EmptyStr

\* C19: a Read that detects that the remote entity does not exist changes
\* nothing locally but the identity: every attribute keeps its value, and
\* the remote call that reported the entity missing is the last one made.
C19_MissingClearsOnlyIdentity ==
    [][(Read /\ DetectsMissing) =>
          /\ attrs' = attrs
          /\ remote' = remote
          /\ Len(op'.calls) = 1
          /\ \A i \in DOMAIN op'.marks : op'.marks[i].what \in {"Read", "ClearId"}]_vars

\* a Read has found a teams list gone and kept the attributes of the list
C19_ListGoneAttributesKept ==
    /\ kind = "teams_list"
    /\ Returned /\ op.name = "Read" /\ op.ret = "ok"
    /\ op.was # EmptyStr /\ id = EmptyStr
    /\ op.calls = <<[api |-> "TeamsList", res |-> E404]>>
    /\ attrs.items # {} /\ attrs.name # ""

---------------------------------------------------------------------------
(* A creation response without an identifier *)

\* the creation call of the Create that finished succeeded, and its response
\* carried an empty identifier: the handler reported it, or stored it as the
\* identity before anything else
EmptyIdentifierReturned ==
    /\ Returned /\ op.name = "Create" /\ kind \in CreatingKinds
    /\ CreationCalls >= 1
    /\ \/ op.ret = ErrEmptyResponse
       \/ op.marks # <<>> /\ op.marks[1].what = "ClearId"

\* C20: a Create of a resource type with a server-issued identity whose
\* creation call succeeded with an empty identifier in the response returns
\* an error without invoking Read, and does not end in success with an
\* empty identity.
C20_EmptyIdentifierFails ==
    EmptyIdentifierReturned =>
        /\ op.ret = ErrEmptyResponse
        /\ ReadMarks = {}
        /\ Len(op.calls) = 1
        /\ ~(op.ret = "ok" /\ op.hid = EmptyStr)

---------------------------------------------------------------------------
(* Operations of one instance and the entity of another instance *)

\* the entity in remote is the one of the other instance: this instance has
\* made none of its own
HoldsOthers == created = 0 /\ remote.exists

\* the step left the entity of the other instance as it was (a creation
\* call adds an entity and changes none)
OthersKept == remote' = remote \/ created' > created

---------------------------------------------------------------------------
(* Items added to a teams list out of band *)

\* the operation applied its patch of the items
PatchApplied(o) ==
    \E i \in DOMAIN o.calls : o.calls[i] = [api |-> "PatchTeamsList", res |-> "ok"]

\* C22: a teams list Update whose items changed leaves in the remote list
\* every item that was added out of band after the last Read and is in
\* neither the old nor the new declared items.
C22_AddedItemsSurvive ==
    [][(op'.name = "Update" /\ PatchApplied(op')) =>
          \A item \in remote.data.items \ (attrs.items \cup declared'.items) :
              item \in remote'.data.items]_vars

\* the Update patched the items from {a, b, c} to {b, c, d} and the item e,
\* which neither set holds, is still in the remote list
C22_KeptAddedItem ==
    /\ Returned /\ op.name = "Update" /\ op.ret = "ok" /\ PatchApplied(op)
    /\ declared.items = {"b", "c", "d"}
    /\ remote.data.items = {"b", "c", "d", "e"}

---------------------------------------------------------------------------
(* An Update that fails after a request of it was applied *)

\* the remote calls of the operation that failed with an error
FailedAt == {c \in DOMAIN op.calls : op.calls[c].res \notin {"ok"} \cup NotFoundErrors(kind)}

\* the requests of the operation that the API applied: update calls that
\* succeeded
AppliedRequests ==
    {i \in Requests :
        /\ op.marks[i].at < Len(op.calls)
        /\ op.calls[op.marks[i].at + 1].api \in UpdateAPIs
        /\ op.calls[op.marks[i].at + 1].res = "ok"}

\* an Update has returned, a request of it was applied and a later remote
\* call of it failed
FailedLate ==
    /\ Updated
    /\ \E i \in AppliedRequests, c \in FailedAt : op.marks[i].at + 1 < c

\* the attributes that a request does not carry as declared: the latitude
\* of a pool is sent as a float32, the items of a teams list as a patch
\* against the prior state
InexactAttrs ==
    CASE kind = "load_balancer_pool" -> {"latitude"}
      [] kind = "teams_list" -> {"items"}
      [] OTHER -> {}

\* what holds when an Update has failed late
RequestsKept ==
    FailedLate =>
        /\ op.ret = op.calls[Len(op.calls)].res
        /\ FailedAt = {Len(op.calls)}
        /\ remote.exists
        /\ \A i \in AppliedRequests :
               \A k \in (op.marks[i].keys \cap DOMAIN remote.data) \ InexactAttrs :
                   AsLocal(k) = declared[k]

\* C23: an Update of which a request was applied and a later remote call
\* failed returns that error, makes no remote call after the failed one (no
\* compensating request), and when it returns the remote entity holds what
\* the applied requests wrote.
C23_NoRollback == [][op' # op => RequestsKept']_vars

\* the Update of a BYOIP prefix applied the description and failed on the
\* advertisement
C23_DescriptionAppliedAdvertisementFailed ==
    /\ kind = "byo_ip_prefix" /\ FailedLate
    /\ op.calls = <<[api |-> "UpdatePrefixDescription", res |-> "ok"],
                    [api |-> "UpdateAdvertisementStatus", res |-> E500]>>
    /\ remote.data.description = "office"

---------------------------------------------------------------------------
(* Update of one attribute of a resource that nothing else has touched *)

\* the declared attributes that the planned configuration of this step
\* changes
ChangedBy(cfg) == {k \in DOMAIN cfg : cfg[k] # attrs[k]}

\* this step is an Update that returned success, of an instance that was
\* created and not touched since, and it changed one declared attribute
UpdatesOne ==
    /\ quiet /\ pc = "idle" /\ id # EmptyStr
    /\ op' # op /\ op'.name = "Update" /\ op'.ret = "ok"
    /\ Cardinality(ChangedBy(declared')) = 1

---------------------------------------------------------------------------
(* What a polling Create has seen when it returns success *)

\* the statuses in which a polling Create takes the entity for ready
ReadyStatuses(k) ==
    IF k = "authenticated_origin_pulls_certificate" THEN {"active"}
    ELSE {"pending_deployment", "active"}

\* the fetches of the polling loops
PollFetchAPIs ==
    {"CustomHostnameFallbackOrigin", AOPFetchAPI(PerZone), AOPFetchAPI(PerHostname)}

\* the attempt of this step fetched the entity, in a ready status
FetchedReady ==
    /\ \E i \in DOMAIN AttemptCalls :
          AttemptCalls[i].api \in PollFetchAPIs /\ AttemptCalls[i].res = "ok"
    /\ remote'.exists /\ remote'.data.status \in ReadyStatuses(kind)

---------------------------------------------------------------------------
(* Identities derived by checksum *)

ChecksumKinds == {"custom_pages", "custom_hostname_fallback_origin", "worker_cron_trigger"}

\* the identity of the entity of resource type k with the given scope and
\* type or name
ChecksumIdentity(k, scope, name) ==
    CASE k = "custom_pages" -> stringChecksum(scope \o <<"/">> \o name)
      [] k = "custom_hostname_fallback_origin" ->
            stringChecksum(scope \o <<"/custom_hostnames_fallback_origin">>)
      [] k = "worker_cron_trigger" -> stringChecksum(name)

\* the scope and the name of the entity an operation was applied to: those
\* of the attributes, for an Import those its external identifier names
\* (the cron trigger's Import takes the whole identifier for the name)
AddressedScope(o, a) ==
    IF o.name = "Import"
    THEN IF kind = "custom_pages" THEN SplitN(o.arg, 3)[2] ELSE SplitN(o.arg, 2)[1]
    ELSE IF kind = "custom_pages"
         THEN (IF a.account_id # EmptyStr THEN a.account_id ELSE a.zone_id)
         ELSE IF kind = "custom_hostname_fallback_origin" THEN a.zone_id
         ELSE a.account_id

AddressedName(o, a) ==
    IF o.name = "Import"
    THEN IF kind = "custom_pages" THEN SplitN(o.arg, 3)[3] ELSE o.arg
    ELSE IF kind = "custom_pages" THEN a.type
         ELSE IF kind = "worker_cron_trigger" THEN a.script_name
         ELSE EmptyStr

IdentityOfAddressed(o, a) ==
    ChecksumIdentity(kind, AddressedScope(o, a), AddressedName(o, a))

\* C26: the identity a successful Create, Read, Update or Import of a
\* checksum-identified resource leaves is empty or the checksum of the scope
\* and the type or name of the entity it was applied to, the same function
\* for all of them; an operation applied to the entity whose identity is in
\* place leaves that identity or none.
C26_IdentityIsChecksumOfEntity ==
    [][(kind \in ChecksumKinds /\ op' # op /\ pc' = "idle" /\ op'.ret = "ok"
            /\ op'.name \in {"Create", "Read", "Update", "Import"}) =>
          /\ id' \in {EmptyStr, IdentityOfAddressed(op', attrs')}
          /\ id = IdentityOfAddressed(op', attrs') => id' \in {EmptyStr, id}]_vars

---------------------------------------------------------------------------
(* Create of the access keys configuration *)

\* the positions of the update requests among the calls of operation o
UpdateRequests(o) == {i \in DOMAIN o.calls : o.calls[i].api = "UpdateAccessKeysConfig"}

\* operation o read the configuration as its last call
ReadLast(o) == o.calls # <<>> /\ o.calls[Len(o.calls)].api = "AccessKeysConfig"

\* the calls of a Create with the rotation interval not passed: the fetch
\* of Read alone
OnlyRead(o) == Len(o.calls) = 1 /\ ReadLast(o)

\* the calls of a Create with a rotation interval: one update request built
\* from the interval, and the fetch of Read when the request was accepted
UpdateThenRead(o) ==
    /\ UpdateRequests(o) = {1}
    /\ \E i \in DOMAIN o.marks :
          o.marks[i].what = "Send" /\ o.marks[i].keys = {"key_rotation_interval_days"}
    /\ IF o.calls[1].res = "ok" THEN Len(o.calls) = 2 /\ ReadLast(o) ELSE Len(o.calls) = 1

\* C27: Create of the access keys configuration with
\* key_rotation_interval_days = 0 sends no update request and only reads the
\* configuration; with another value it sends exactly one update request
\* carrying that value, which the API holds once the request is accepted,
\* and then reads.  In both cases a successful Create ends with the identity
\* equal to account_id.
C27_CreateReadsOrUpdatesOnce ==
    [][(kind = "access_keys_configuration" /\ op' # op /\ op'.name = "Create") =>
          /\ declared'.key_rotation_interval_days = 0 => OnlyRead(op')
          /\ declared'.key_rotation_interval_days # 0 =>
                 /\ UpdateThenRead(op')
                 /\ op'.calls[1].res = "ok" =>
                        remote'.data.key_rotation_interval_days =
                            declared'.key_rotation_interval_days
          /\ op'.ret = "ok" => id' = declared'.account_id]_vars

---------------------------------------------------------------------------
(* The states of a custom page *)

\* operation o made the fetch of Read as its last call, and it succeeded
FetchedPage(o) ==
    o.calls # <<>> /\ o.calls[Len(o.calls)] = [api |-> "CustomPage", res |-> "ok"]

\* the positions of the update requests among the calls of operation o
PageUpdates(o) == {i \in DOMAIN o.calls : o.calls[i].api = "UpdateCustomPage"}

\* C28: a Read of a custom page that fetched a page in state "default" has
\* cleared the identity and returned success with every attribute as it was;
\* a Delete sends one update, which leaves the page in state "default"
\* without URL, and then reads, so that a successful Delete ends with an
\* empty identity; the one update of a Create or an Update leaves the page
\* in state "customized" with the declared URL.
C28_DefaultPageIsAbsent ==
    [][(kind = "custom_pages" /\ op' # op) =>
          /\ (op'.name = "Read" /\ FetchedPage(op') /\ remote.data.state = "default") =>
                 op'.ret = "ok" /\ op'.hid = EmptyStr /\ id' = EmptyStr /\ attrs' = attrs
          /\ op'.name = "Delete" =>
                 /\ PageUpdates(op') = {1}
                 /\ op'.calls[1].res = "ok" =>
                        /\ remote'.data = [state |-> "default", url |-> ""]
                        /\ Len(op'.calls) = 2 /\ op'.calls[2].api = "CustomPage"
                 /\ op'.ret = "ok" => op'.hid = EmptyStr /\ id' = EmptyStr
          /\ op'.name \in {"Create", "Update"} =>
                 /\ PageUpdates(op') = {1}
                 /\ op'.calls[1].res = "ok" =>
                        remote'.data = [state |-> "customized", url |-> declared'.url]]_vars

\* a customized page was deleted: the Delete returned success after its
\* update and the fetch of Read, the page is in state "default" and the
\* identity is empty
C28_DeletedToDefault ==
    /\ kind = "custom_pages" /\ Returned /\ op.name = "Delete" /\ op.ret = "ok"
    /\ op.was # EmptyStr /\ id = EmptyStr
    /\ op.calls = <<[api |-> "UpdateCustomPage", res |-> "ok"], [api |-> "CustomPage", res |-> "ok"]>>
    /\ remote.data.state = "default"

---------------------------------------------------------------------------
(* The endpoints of the certificate of authenticated origin pulls *)

PerZoneAPIs == {AOPUploadAPI(PerZone), AOPFetchAPI(PerZone), AOPDeleteAPI(PerZone)}

PerHostnameAPIs ==
    {AOPUploadAPI(PerHostname), AOPFetchAPI(PerHostname), AOPDeleteAPI(PerHostname)}

\* every remote call of operation o is one of apis
CallsWithin(o, apis) == \A i \in DOMAIN o.calls : o.calls[i].api \in apis

\* C29: every remote call a Create, Read or Delete of the certificate makes
\* is one of the endpoints of the instance's type: per-zone endpoints with
\* type "per-zone", per-hostname endpoints with type "per-hostname"; with
\* the type set to another value the operation makes no remote call, returns
\* success and leaves the identity as it found it.
C29_CallsMatchType ==
    [][(kind = "authenticated_origin_pulls_certificate" /\ op' # op
            /\ op'.name \in {"Create", "Read", "Delete"}) =>
          /\ attrs'.type = PerZone => CallsWithin(op', PerZoneAPIs)
          /\ attrs'.type = PerHostname => CallsWithin(op', PerHostnameAPIs)
          /\ attrs'.type \notin {PerZone, PerHostname, EmptyStr} =>
                 op'.calls = <<>> /\ op'.ret = "ok" /\ op'.hid = op'.was]_vars

\* a certificate imported with a type that names neither family was read:
\* the Read made no call, returned success and kept the identity
C29_ReadOfOtherType ==
    /\ kind = "authenticated_origin_pulls_certificate"
    /\ Returned /\ op.name = "Read" /\ op.ret = "ok"
    /\ attrs.type = OtherType
    /\ op.calls = <<>>
    /\ id = <<"c1">>

---------------------------------------------------------------------------
(* The round trip of magic firewall rules *)

\* every declared rule has a description that is not empty
Described(rules) ==
    \A i \in DOMAIN rules : "description" \in DOMAIN rules[i] /\ rules[i].description # ""

\* C30: declared rules with action "allow" or "block", enabled "true" or
\* "false" and a non-empty description, converted to API rules and back to
\* state, are the same rules in the same order; "allow" is sent as action
\* "skip" with ruleset "current" (and "block" as "block" without
\* parameters), and an API action other than "skip" is read back as "block".
C30_RulesRoundTrip ==
    /\ pc \in {"built", "read back"} =>
          /\ Len(op.arg) = Len(declared.rules)
          /\ \A i \in DOMAIN declared.rules :
                IF declared.rules[i].action = "allow"
                THEN op.arg[i].Action = "skip" /\ op.arg[i].ActionParameters = "current"
                ELSE op.arg[i].Action = "block" /\ op.arg[i].ActionParameters = "nil"
    /\ (pc = "read back" /\ Described(declared.rules)) => attrs.rules = declared.rules
    /\ pc = "read" =>
          /\ Len(attrs.rules) = Len(remote.data.rules)
          /\ \A i \in DOMAIN remote.data.rules :
                remote.data.rules[i].Action # "skip" => attrs.rules[i].action = "block"

\* a described "block" rule followed by a described "allow" rule came back
\* from the round trip as declared, the second one sent as "skip"
C30_BlockThenAllowCameBack ==
    /\ pc = "read back"
    /\ Len(declared.rules) = 2 /\ Described(declared.rules)
    /\ declared.rules[1].action = "block" /\ declared.rules[2].action = "allow"
    /\ declared.rules[1].enabled = "false" /\ declared.rules[2].enabled = "true"
    /\ op.arg[2].Action = "skip" /\ op.arg[2].ActionParameters = "current"
    /\ attrs.rules = declared.rules
====
